---- MODULE Spec2Model ----
(***************************************************************************)
(* Verification model of the WhatsApp backup viewer core:                  *)
(*   - chatMerger.ts      (mergeMessages, getMessageKey)                   *)
(*   - timelineBuilder.ts (groupMessagesIntoBubbles)                       *)
(*   - mediaCache.ts      (MediaCacheService)                              *)
(*   - chatParser.ts      (inferDateOrder, parseMessages, createMessage)   *)
(*                                                                         *)
(* Text is held as a sequence of tokens (words, file names, punctuation    *)
(* and white space are separate tokens); string operations act token by    *)
(* token.  Each component has its own specification (SpecMerge,            *)
(* SpecBubbles, SpecCache, SpecParse) over the shared variable tuple.      *)
(***************************************************************************)
EXTENDS Integers, Sequences, FiniteSets, TLC

VARIABLES
  allMessages,   \* chatMerger: the Message[][] argument being assembled
  pooled,        \* chatMerger: the argument as it was when mergeMessages was called
  merged,        \* chatMerger: the array mergeMessages returned
  mergeDone,     \* chatMerger: mergeMessages has returned
  bubbleInput,   \* timelineBuilder: the messages of one date group
  bubbleGroups,  \* timelineBuilder: the groups groupMessagesIntoBubbles returned
  bubbleDone,    \* timelineBuilder: groupMessagesIntoBubbles has returned
  store,         \* mediaCache: Cache Storage entries, in cache.keys() order
  memoryCache,   \* mediaCache: driveFileIds held in the in-memory map
  cacheSize,     \* mediaCache: the tracked aggregate size
  now,           \* mediaCache: Date.now()
  lastInsert,    \* mediaCache: the insert completed by the last step, if any
  lastCall,      \* mediaCache: the key and outcome of the last getMedia call, if any
  calls,         \* mediaCache: the position of each getMedia call in progress
  started,       \* mediaCache: the number of getMedia calls begun in calls
  lines,         \* chatParser: the lines of the source file (content.split('\n'))
  mediaFiles,    \* chatParser: the attachment index
  dateOrder,     \* chatParser: the order inferDateOrder returned
  parsed,        \* chatParser: the messages parseMessages returned
  parseErrors,   \* chatParser: the errors list
  contentIsText, \* chatParser: the content handed to parseChatFile is a string
  chat,          \* chatParser: the participants and isGroup of the returned chat
  parseDone,     \* chatParser: parseMessages has returned
  selectedChat,         \* App: the chat shown in the chat view, "" for null
  selectedChatFolder,   \* App: the folder selected last, "" for null
  privateUnlocked,      \* useDriveChats: state.privateUnlocked
  showPasswordPrompt,   \* App
  pendingPrivateChat,   \* App: "" for null
  visiblePrivateChats,  \* App: the private folders listed in the sidebar
  loading,              \* App: the loadChat calls that have not returned
  images,        \* image cache: the records of the object store
  imageCalls     \* image cache: the position of each cacheImage call

mergeVars  == <<allMessages, pooled, merged, mergeDone>>
bubbleVars == <<bubbleInput, bubbleGroups, bubbleDone>>
cacheVars  == <<store, memoryCache, cacheSize, now, lastInsert, lastCall, calls, started>>
parseVars  == <<lines, mediaFiles, dateOrder, parsed, parseErrors, parseDone,
               contentIsText, chat>>
imageVars == <<images, imageCalls>>
nonAppVars == <<mergeVars, bubbleVars, cacheVars, parseVars, imageVars>>
appVars == <<selectedChat, selectedChatFolder, privateUnlocked,
             showPasswordPrompt, pendingPrivateChat, visiblePrivateChats,
             loading>>
nonImageVars == <<mergeVars, bubbleVars, cacheVars, parseVars, appVars>>
vars == <<allMessages, pooled, merged, mergeDone,
          bubbleInput, bubbleGroups, bubbleDone,
          store, memoryCache, cacheSize, now, lastInsert, lastCall, calls, started,
          lines, mediaFiles, dateOrder, parsed, parseErrors, parseDone,
          contentIsText, chat,
          selectedChat, selectedChatFolder, privateUnlocked,
          showPasswordPrompt, pendingPrivateChat, visiblePrivateChats, loading,
          images, imageCalls>>

----------------------------------------------------------------------------
(* Strings                                                                 *)

Min(a, b) == IF a < b THEN a ELSE b

\* White-space tokens (what \s matches).
WhiteSpace == {" ", "\n", "\t", "\r"}

\* String.prototype.toLowerCase on the vocabulary of the model: the tokens
\* that contain upper-case letters, each with its lower-case form.
LowerPairs ==
  { <<"Alice", "alice">>, <<"ALICE", "alice">>, <<"Bob", "bob">>,
    <<"Hello", "hello">>, <<"HELLO", "hello">>,
    <<"IMG-1.jpg", "img-1.jpg">>, <<"IMG-1.JPG", "img-1.jpg">>,
    <<"IMG-9999-WA0001.jpg", "img-9999-wa0001.jpg">>,
    <<"WhatsApp", "whatsapp">>, <<"They", "they">>, <<"System", "system">>,
    <<"Voice", "voice">>, <<"Media", "media">>, <<"Missed", "missed">>,
    <<"Rajiv", "rajiv">>, <<"RAJIV", "rajiv">> }

ToLowerTok(t) ==
  IF \E p \in LowerPairs : p[1] = t
  THEN (CHOOSE p \in LowerPairs : p[1] = t)[2]
  ELSE t

ToLowerCase(s) == [i \in 1..Len(s) |-> ToLowerTok(s[i])]

RECURSIVE TrimStart(_)
TrimStart(s) ==
  IF s # <<>> /\ Head(s) \in WhiteSpace THEN TrimStart(Tail(s)) ELSE s

RECURSIVE TrimEnd(_)
TrimEnd(s) ==
  IF s # <<>> /\ s[Len(s)] \in WhiteSpace
  THEN TrimEnd(SubSeq(s, 1, Len(s) - 1)) ELSE s

\* String.prototype.trim
Trim(s) == TrimEnd(TrimStart(s))

\* const x = v; the value is computed once and F is applied to it.
With(v, F(_)) == CHOOSE r \in {F(x) : x \in {v}} : TRUE

----------------------------------------------------------------------------
(* chatMerger.ts                                                           *)

\* Bounds: source arrays, and messages in all of them together.
MaxSources == 2
MaxMessages == 3

Alice == <<"Alice">>
Hello == <<"hello">>

\* The messages the sources are built from.  timestamp is getTime() in
\* milliseconds (12:00:00.100 is 43200100); an absent mediaFileName is <<>>.
MergeTemplates ==
  { [timestamp |-> 43200100, sender |-> Alice, content |-> Hello,
     mediaFileName |-> <<>>],
    [timestamp |-> 43200900, sender |-> Alice, content |-> Hello,
     mediaFileName |-> <<>>],
    [timestamp |-> 43200500, sender |-> <<"ALICE", " ">>,
     content |-> <<" ", "Hello">>, mediaFileName |-> <<>>],
    [timestamp |-> 43201000, sender |-> Alice, content |-> Hello,
     mediaFileName |-> <<>>],
    [timestamp |-> 43200100, sender |-> Alice, content |-> <<>>,
     mediaFileName |-> <<"IMG-1.JPG">>],
    [timestamp |-> 43200900, sender |-> Alice, content |-> <<"img-1.jpg">>,
     mediaFileName |-> <<>>] }

\* Mutant of getMessageKey: the timestamp is not floored to the second.
getMessageKey_NoFloor(msg) ==
  LET timestamp == msg.timestamp
      sender    == Trim(ToLowerCase(msg.sender))
  IN  IF msg.mediaFileName # <<>>
      THEN [ts |-> timestamp,
            rest |-> <<"|">> \o sender \o <<"|", "media:">>
                     \o ToLowerCase(msg.mediaFileName)]
      ELSE [ts |-> timestamp,
            rest |-> <<"|">> \o sender \o <<"|">>
                     \o Trim(ToLowerCase(msg.content))]

\* getMessageKey: `${timestamp}|${sender}|media:${file}` or
\* `${timestamp}|${sender}|${content}`.  The decimal timestamp cannot
\* contain '|', so the key is held as the number and the rest of the string.
getMessageKey(msg) ==
  LET timestamp == (msg.timestamp \div 1000) * 1000
      sender    == Trim(ToLowerCase(msg.sender))
  IN  IF msg.mediaFileName # <<>>
      THEN [ts |-> timestamp,
            rest |-> <<"|">> \o sender \o <<"|", "media:">>
                     \o ToLowerCase(msg.mediaFileName)]
      ELSE [ts |-> timestamp,
            rest |-> <<"|">> \o sender \o <<"|">>
                     \o Trim(ToLowerCase(msg.content))]

\* Array.prototype.flat
RECURSIVE Flat(_)
Flat(arrays) ==
  IF arrays = <<>> THEN <<>> ELSE Head(arrays) \o Flat(Tail(arrays))

\* Insert m behind every element whose timestamp is not greater (stable).
RECURSIVE InsertByTimestamp(_, _)
InsertByTimestamp(m, s) ==
  IF s = <<>> THEN <<m>>
  ELSE IF Head(s).timestamp - m.timestamp > 0 THEN <<m>> \o s
  ELSE <<Head(s)>> \o InsertByTimestamp(m, Tail(s))

\* Mutant of SortByTimestamp: the order is left as it is.
SortByTimestamp_Unsorted(s) == s

\* Array.prototype.sort((a, b) => a.timestamp.getTime() - b.timestamp.getTime()),
\* which is a stable sort.
RECURSIVE SortByTimestamp(_)
SortByTimestamp(s) ==
  IF s = <<>> THEN <<>>
  ELSE InsertByTimestamp(s[Len(s)], SortByTimestamp(SubSeq(s, 1, Len(s) - 1)))

\* Mutant of DedupLoop: the last message of a key is kept, not the first.
RECURSIVE DedupLoop_LastWins(_, _, _)
DedupLoop_LastWins(flatMessages, seenKeys, mergedSoFar) ==
  IF flatMessages = <<>> THEN mergedSoFar
  ELSE LET msg == Head(flatMessages)
           key == getMessageKey(msg)
       IN  IF \E i \in 2..Len(flatMessages) :
                 getMessageKey(flatMessages[i]) = key
           THEN DedupLoop_LastWins(Tail(flatMessages), seenKeys, mergedSoFar)
           ELSE DedupLoop_LastWins(Tail(flatMessages), seenKeys \cup {key},
                                   Append(mergedSoFar, msg))

\* The loop of lines 50-57: keep a message when its key was not seen yet.
RECURSIVE DedupLoop(_, _, _)
DedupLoop(flatMessages, seenKeys, mergedSoFar) ==
  IF flatMessages = <<>> THEN mergedSoFar
  ELSE LET msg == Head(flatMessages)
           key == getMessageKey(msg)
       IN  IF key \notin seenKeys
           THEN DedupLoop(Tail(flatMessages), seenKeys \cup {key},
                          Append(mergedSoFar, msg))
           ELSE DedupLoop(Tail(flatMessages), seenKeys, mergedSoFar)

\* Mutant of mergeMessages: deduplication also of a single source.
mergeMessages_AlwaysDedup(sources) ==
  DedupLoop(SortByTimestamp(Flat(sources)), {}, <<>>)

\* mergeMessages, lines 32-60.
mergeMessages(sources) ==
  IF Len(sources) = 1
  THEN SortByTimestamp(sources[1])
  ELSE DedupLoop(SortByTimestamp(Flat(sources)), {}, <<>>)

\* sender.replace(/[^a-z0-9]/g, '_').toLowerCase() on the words of the
\* senders: every character that is not a lower-case letter or a digit
\* becomes '_' before the lower-casing.
SanitizedPairs ==
  { <<"Alice", "_lice">>, <<"ALICE", "_____">>, <<" ", "_">> }

SanitizeTok(t) == (CHOOSE p \in SanitizedPairs : p[1] = t)[2]

\* chatParser.ts generateMessageId: `msg_${getTime()}_${seq}_${sender}`.
generateMessageId(timestamp, sender, seq) ==
  [ts |-> timestamp, seq |-> seq,
   sender |-> [i \in 1..Len(sender) |-> SanitizeTok(sender[i])]]

\* The id createMessage gave the message when its source was parsed: seq is
\* the number of messages of the source created before it (messages.length).
MessageId(msg) == generateMessageId(msg.timestamp, msg.sender, msg.ref[2] - 1)

\* A caller adds one more (empty) source array.
AddSource ==
  /\ ~mergeDone
  /\ Len(allMessages) < MaxSources
  /\ allMessages' = Append(allMessages, <<>>)
  /\ UNCHANGED <<pooled, merged, mergeDone>>

\* A caller adds a message to the last source array.  ref stands for the
\* identity of the message object (source number, position in the source).
AddMessage ==
  /\ ~mergeDone
  /\ allMessages # <<>>
  /\ LET n == Len(allMessages) IN
       /\ Len(Flat(allMessages)) < MaxMessages
       /\ \E t \in MergeTemplates :
            allMessages' =
              [allMessages EXCEPT ![n] =
                 Append(@, [timestamp |-> t.timestamp, sender |-> t.sender,
                            content |-> t.content,
                            mediaFileName |-> t.mediaFileName,
                            ref |-> <<n, Len(allMessages[n]) + 1>>])]
  /\ UNCHANGED <<pooled, merged, mergeDone>>

\* mergeMessages(allMessages).  With one source, sort() reorders that
\* source array in place and returns it.
Merge ==
  /\ ~mergeDone
  /\ pooled' = allMessages
  /\ merged' = mergeMessages(allMessages)
  /\ allMessages' = IF Len(allMessages) = 1
                    THEN <<SortByTimestamp(allMessages[1])>>
                    ELSE allMessages
  /\ mergeDone' = TRUE

NextMerge ==
  \/ (AddSource /\ UNCHANGED <<bubbleVars, cacheVars, parseVars, appVars, imageVars>>)
  \/ (AddMessage /\ UNCHANGED <<bubbleVars, cacheVars, parseVars, appVars, imageVars>>)
  \/ (Merge /\ UNCHANGED <<bubbleVars, cacheVars, parseVars, appVars, imageVars>>)

----------------------------------------------------------------------------
(* timelineBuilder.ts                                                      *)

MaxBubbleMessages == 4

\* The senders of the date group with their polarity (isOutgoing is
\* isMeSender(sender) for every parsed message), and the senders of system
\* messages.
BubbleSenders ==
  { [sender |-> "Bob", type |-> "text", isOutgoing |-> FALSE],
    [sender |-> "Rajiv", type |-> "text", isOutgoing |-> TRUE],
    [sender |-> "System", type |-> "system", isOutgoing |-> FALSE] }

\* 10:00:00 as milliseconds of the day, and the gaps between one message
\* and the next (0 s, 6 min, 9 min, 10 min, 10 min 30 s).
FirstBubbleTime == 36000000
BubbleGaps == {0, 360000, 540000, 600000, 630000}

\* date-fns differenceInMinutes(dateLeft, dateRight): the number of full
\* minutes between the dates, rounded towards zero.
differenceInMinutes(dateLeft, dateRight) ==
  LET diff == dateLeft - dateRight
  IN  IF diff >= 0 THEN diff \div 60000 ELSE -((-diff) \div 60000)

\* Mutant of shouldGroup: the window is measured from the last message of
\* the group, not from its first.
shouldGroup_FromLast(currentGroup, message) ==
  /\ currentGroup # <<>>
  /\ currentGroup[1].sender = message.sender
  /\ currentGroup[1].isOutgoing = message.isOutgoing
  /\ differenceInMinutes(
       message.timestamp,
       currentGroup[1].messages[Len(currentGroup[1].messages)].timestamp) <= 10

\* shouldGroup of lines 88-91; currentGroup is <<>> for null.
shouldGroup(currentGroup, message) ==
  /\ currentGroup # <<>>
  /\ currentGroup[1].sender = message.sender
  /\ currentGroup[1].isOutgoing = message.isOutgoing
  /\ differenceInMinutes(message.timestamp, currentGroup[1].timestamp) <= 10

\* The forEach of lines 69-110 followed by lines 113-115.
RECURSIVE BubbleLoop(_, _, _)
BubbleLoop(messages, groups, currentGroup) ==
  IF messages = <<>> THEN groups \o currentGroup
  ELSE LET message == Head(messages) IN
    IF message.type = "system"
    THEN BubbleLoop(Tail(messages),
                    (groups \o currentGroup)
                      \o <<[sender |-> message.sender, isOutgoing |-> FALSE,
                            messages |-> <<message>>,
                            timestamp |-> message.timestamp]>>,
                    <<>>)
    ELSE IF shouldGroup(currentGroup, message)
    THEN BubbleLoop(Tail(messages), groups,
                    <<[currentGroup[1] EXCEPT !.messages = Append(@, message)]>>)
    ELSE BubbleLoop(Tail(messages), groups \o currentGroup,
                    <<[sender |-> message.sender,
                       isOutgoing |-> message.isOutgoing,
                       messages |-> <<message>>,
                       timestamp |-> message.timestamp]>>)

groupMessagesIntoBubbles(messages) ==
  IF Len(messages) = 0 THEN <<>> ELSE BubbleLoop(messages, <<>>, <<>>)

\* The date group gets one more message, not earlier than the last one
\* (ChatView passes the messages of a date group in timestamp order).
AppendBubbleMessage ==
  /\ ~bubbleDone
  /\ Len(bubbleInput) < MaxBubbleMessages
  /\ \E who \in BubbleSenders, gap \in BubbleGaps :
       LET ts == IF bubbleInput = <<>> THEN FirstBubbleTime
                 ELSE bubbleInput[Len(bubbleInput)].timestamp + gap
       IN  /\ (bubbleInput = <<>> => gap = 0)
           /\ bubbleInput' =
                Append(bubbleInput,
                       [timestamp |-> ts, sender |-> who.sender,
                        type |-> who.type, isOutgoing |-> who.isOutgoing,
                        ref |-> Len(bubbleInput) + 1])
  /\ UNCHANGED <<bubbleGroups, bubbleDone>>

GroupBubbles ==
  /\ ~bubbleDone
  /\ bubbleGroups' = groupMessagesIntoBubbles(bubbleInput)
  /\ bubbleDone' = TRUE
  /\ UNCHANGED bubbleInput

NextBubbles ==
  \/ (AppendBubbleMessage /\ UNCHANGED <<mergeVars, cacheVars, parseVars, appVars, imageVars>>)
  \/ (GroupBubbles /\ UNCHANGED <<mergeVars, cacheVars, parseVars, appVars, imageVars>>)

----------------------------------------------------------------------------
(* mediaCache.ts.  Sizes are counted in MiB, so MAX_CACHE_SIZE (2 GB) is   *)
(* 2048 and the product MAX_CACHE_SIZE * EVICTION_THRESHOLD is 1843.2; a   *)
(* comparison with it is made on tenths.  One getMedia call runs at a time *)
(* in this specification.                                                  *)

MAX_CACHE_SIZE == 2048
EVICTION_THRESHOLD_TENTHS == 9

MaxClock == 4
DriveFileIds == {"f1", "f2", "f3"}
\* Blob sizes the remote store can return: two that fit several times, one
\* above the threshold but below the budget, one above the budget.
BlobSizes == {600, 900, 1844, 2049}

\* x > MAX_CACHE_SIZE * EVICTION_THRESHOLD and x < MAX_CACHE_SIZE * EVICTION_THRESHOLD
AboveThreshold(x) == 10 * x > EVICTION_THRESHOLD_TENTHS * MAX_CACHE_SIZE
BelowThreshold(x) == 10 * x < EVICTION_THRESHOLD_TENTHS * MAX_CACHE_SIZE

RECURSIVE SumSizes(_)
SumSizes(entries) ==
  IF entries = <<>> THEN 0 ELSE Head(entries).size + SumSizes(Tail(entries))

StoreKeys(entries) == {entries[i].driveFileId : i \in 1..Len(entries)}

RECURSIVE RemoveKeys(_, _)
RemoveKeys(entries, keys) ==
  IF entries = <<>> THEN <<>>
  ELSE IF Head(entries).driveFileId \in keys THEN RemoveKeys(Tail(entries), keys)
  ELSE <<Head(entries)>> \o RemoveKeys(Tail(entries), keys)

\* cache.put(cacheKey, response): an entry of the same request is replaced,
\* the new entry is the last of cache.keys().
CachePut(entries, entry) ==
  Append(RemoveKeys(entries, {entry.driveFileId}), entry)

RECURSIVE InsertByAccess_NewestFirst(_, _)
InsertByAccess_NewestFirst(e, s) ==
  IF s = <<>> THEN <<e>>
  ELSE IF e.lastAccessed - Head(s).lastAccessed > 0 THEN <<e>> \o s
  ELSE <<Head(s)>> \o InsertByAccess_NewestFirst(e, Tail(s))

RECURSIVE InsertByAccess(_, _)
InsertByAccess(e, s) ==
  IF s = <<>> THEN <<e>>
  ELSE IF Head(s).lastAccessed - e.lastAccessed > 0 THEN <<e>> \o s
  ELSE <<Head(s)>> \o InsertByAccess(e, Tail(s))

\* entries.sort((a, b) => a.metadata.lastAccessed - b.metadata.lastAccessed)
RECURSIVE SortByLastAccessed(_)
SortByLastAccessed(s) ==
  IF s = <<>> THEN <<>>
  ELSE InsertByAccess(s[Len(s)], SortByLastAccessed(SubSeq(s, 1, Len(s) - 1)))

\* The loop of lines 211-228: the keys deleted and the space freed.
RECURSIVE EvictLoop(_, _, _, _, _)
EvictLoop(entries, size0, spaceNeeded, freedSpace, evicted) ==
  IF entries = <<>> THEN [freedSpace |-> freedSpace, evicted |-> evicted]
  ELSE IF BelowThreshold(size0 - freedSpace + spaceNeeded)
  THEN [freedSpace |-> freedSpace, evicted |-> evicted]
  ELSE EvictLoop(Tail(entries), size0, spaceNeeded,
                 freedSpace + Head(entries).size,
                 evicted \cup {Head(entries).driveFileId})

\* evictLRU(spaceNeeded) on the cache state c = [store, memoryCache, cacheSize].
evictLRU(c, spaceNeeded) ==
  LET r == EvictLoop(SortByLastAccessed(c.store), c.cacheSize, spaceNeeded, 0, {})
  IN  [store |-> RemoveKeys(c.store, r.evicted),
       memoryCache |-> c.memoryCache \ r.evicted,
       cacheSize |-> c.cacheSize - r.freedSpace]

\* addToCache(driveFileId, blob) at time t.
addToCache(c, driveFileId, size, t) ==
  LET c1 == IF AboveThreshold(c.cacheSize + size) THEN evictLRU(c, size) ELSE c
  IN  [store |-> CachePut(c1.store, [driveFileId |-> driveFileId, size |-> size,
                                     lastAccessed |-> t]),
       memoryCache |-> c1.memoryCache,
       cacheSize |-> c1.cacheSize + size]

updateAccessTime_Keep(entries, driveFileId, t) == entries

\* updateAccessTime(driveFileId) at time t.
updateAccessTime(entries, driveFileId, t) ==
  IF driveFileId \in StoreKeys(entries)
  THEN LET i == CHOOSE j \in 1..Len(entries) : entries[j].driveFileId = driveFileId
       IN  CachePut(entries, [entries[i] EXCEPT !.lastAccessed = t])
  ELSE entries

\* Date.now() of a call: the clock value of the previous call or a later one.
Tick(t) == t \in {now, now + 1} /\ t <= MaxClock /\ now' = t

\* getMedia, lines 69-73: the key is in the in-memory map.
GetMediaMemoryHit ==
  \E k \in DriveFileIds, t \in 0..MaxClock :
    /\ Tick(t)
    /\ k \in memoryCache
    /\ store' = updateAccessTime(store, k, t)
    /\ lastInsert' = <<>>
    /\ lastCall' = <<[driveFileId |-> k, outcome |-> "memory hit"]>>
    /\ UNCHANGED <<memoryCache, cacheSize>>

\* getMedia, lines 76-82: the key is in Cache Storage only.
GetMediaDiskHit ==
  \E k \in DriveFileIds, t \in 0..MaxClock :
    /\ Tick(t)
    /\ k \notin memoryCache
    /\ k \in StoreKeys(store)
    /\ memoryCache' = memoryCache \cup {k}
    /\ store' = updateAccessTime(store, k, t)
    /\ lastInsert' = <<>>
    /\ lastCall' = <<[driveFileId |-> k, outcome |-> "disk hit"]>>
    /\ UNCHANGED cacheSize

\* The entries of `before' whose key is no longer in `after'.
Evicted(before, after) ==
  {before[i] : i \in {j \in 1..Len(before) :
                        before[j].driveFileId \notin StoreKeys(after)}}

\* getMedia, line 86, and fetchAndCache with a successful fetch.
GetMediaMiss ==
  \E k \in DriveFileIds, size \in BlobSizes, t \in 0..MaxClock :
    /\ Tick(t)
    /\ k \notin memoryCache
    /\ k \notin StoreKeys(store)
    /\ LET c == addToCache([store |-> store,
                            memoryCache |-> memoryCache \cup {k},
                            cacheSize |-> cacheSize], k, size, t)
       IN  /\ store' = c.store
           /\ memoryCache' = c.memoryCache
           /\ cacheSize' = c.cacheSize
           /\ lastInsert' = <<[driveFileId |-> k, size |-> size,
                               evicted |-> Evicted(store, c.store)]>>
    /\ lastCall' = <<[driveFileId |-> k, outcome |-> "miss"]>>

GetMediaFetchFails_MemorySet ==
  \E k \in DriveFileIds :
    /\ k \notin memoryCache
    /\ k \notin StoreKeys(store)
    /\ memoryCache' = memoryCache \cup {k}
    /\ lastInsert' = <<>>
    /\ lastCall' = <<[driveFileId |-> k, outcome |-> "error"]>>
    /\ UNCHANGED <<store, cacheSize, now>>

\* getMedia, line 86, and fetchAndCache with a failing fetch (lines 118-119,
\* 131-134): the error is thrown to the caller.
GetMediaFetchFails ==
  \E k \in DriveFileIds :
    /\ k \notin memoryCache
    /\ k \notin StoreKeys(store)
    /\ lastInsert' = <<>>
    /\ lastCall' = <<[driveFileId |-> k, outcome |-> "error"]>>
    /\ UNCHANGED <<store, memoryCache, cacheSize, now>>

\* The page is loaded again: a new MediaCacheService whose init() computes
\* cacheSize from Cache Storage (calculateCacheSize).
Reload ==
  /\ memoryCache # {}
  /\ memoryCache' = {}
  /\ cacheSize' = SumSizes(store)
  /\ lastInsert' = <<>> /\ lastCall' = <<>>
  /\ UNCHANGED <<store, now>>

\* clearAll
ClearAll ==
  /\ store # <<>>
  /\ store' = <<>>
  /\ memoryCache' = {}
  /\ cacheSize' = 0
  /\ lastInsert' = <<>> /\ lastCall' = <<>>
  /\ UNCHANGED now

NextCache ==
  \/ (GetMediaMemoryHit /\ UNCHANGED <<calls, started, mergeVars, bubbleVars, parseVars, appVars, imageVars>>)
  \/ (GetMediaDiskHit /\ UNCHANGED <<calls, started, mergeVars, bubbleVars, parseVars, appVars, imageVars>>)
  \/ (GetMediaMiss /\ UNCHANGED <<calls, started, mergeVars, bubbleVars, parseVars, appVars, imageVars>>)
  \/ (GetMediaFetchFails /\ UNCHANGED <<calls, started, mergeVars, bubbleVars, parseVars, appVars, imageVars>>)
  \/ (Reload /\ UNCHANGED <<calls, started, mergeVars, bubbleVars, parseVars, appVars, imageVars>>)
  \/ (ClearAll /\ UNCHANGED <<calls, started, mergeVars, bubbleVars, parseVars, appVars, imageVars>>)

----------------------------------------------------------------------------
(* mediaCache.ts with several getMedia calls in progress, as preloadMedia   *)
(* (lines 338-351) starts them.  A call runs until its next await and is    *)
(* resumed by a step of its own; the awaits inside one evictLRU, one        *)
(* cache.put and one updateAccessTime are resumed without another call      *)
(* running in between, which is one of the schedules of the event loop.     *)

\* Two calls can be in progress at a time; MaxStarted calls are begun in all.
CallIds == {"call1", "call2"}
MaxStarted == 3

\* pc: "idle" no call, or the call has returned or thrown;
\*     "lookup" in getCachedUrl (line 76); "fetch" in fetch (line 118);
\*     "evict" in evictLRU (line 149); "put" in cache.put (line 170);
\*     "touch" in updateAccessTime (lines 71, 80).
IdleCall == [pc |-> "idle", driveFileId |-> "", size |-> 0, result |-> "none"]

Returned(call, result) == [call EXCEPT !.pc = "idle", !.size = 0, !.result = result]

\* The fetches that have been started for key k and have not completed.
FetchesInFlight(k) == {c \in CallIds : calls[c].pc = "fetch" /\ calls[c].driveFileId = k}

\* getMedia, lines 66-76: after init, the test of the in-memory map.
CallGetMedia(c) ==
  \E k \in DriveFileIds :
    /\ calls[c].pc = "idle"
    /\ started < MaxStarted
    /\ started' = started + 1
    /\ calls' = [calls EXCEPT ![c] =
         [pc |-> IF k \in memoryCache THEN "touch" ELSE "lookup",
          driveFileId |-> k, size |-> 0, result |-> "none"]]
    /\ UNCHANGED <<store, memoryCache, cacheSize, now, lastInsert, lastCall>>

\* getCachedUrl, lines 92-108, and getMedia, lines 77-80.
LookupDone(c) ==
  /\ calls[c].pc = "lookup"
  /\ IF calls[c].driveFileId \in StoreKeys(store)
     THEN /\ memoryCache' = memoryCache \cup {calls[c].driveFileId}
          /\ calls' = [calls EXCEPT ![c].pc = "touch"]
     ELSE /\ calls' = [calls EXCEPT ![c].pc = "fetch"]
          /\ UNCHANGED memoryCache
  /\ UNCHANGED <<store, cacheSize, now, lastInsert, lastCall>>

\* fetchAndCache, lines 118-128, and addToCache, lines 144-149: the fetch
\* succeeded.
FetchOk(c) ==
  \E size \in BlobSizes :
    /\ calls[c].pc = "fetch"
    /\ memoryCache' = memoryCache \cup {calls[c].driveFileId}
    /\ calls' = [calls EXCEPT ![c].size = size,
                              ![c].pc = IF AboveThreshold(cacheSize + size)
                                        THEN "evict" ELSE "put"]
    /\ UNCHANGED <<store, cacheSize, now, lastInsert, lastCall>>

\* fetchAndCache, lines 118-119 and 131-134: the fetch failed and the error
\* is thrown to the caller of getMedia.
FetchFails(c) ==
  /\ calls[c].pc = "fetch"
  /\ calls' = [calls EXCEPT ![c] = Returned(calls[c], "error")]
  /\ UNCHANGED <<store, memoryCache, cacheSize, now, lastInsert, lastCall>>

\* evictLRU, lines 182-235.
EvictDone(c) ==
  /\ calls[c].pc = "evict"
  /\ LET r == evictLRU([store |-> store, memoryCache |-> memoryCache,
                        cacheSize |-> cacheSize], calls[c].size)
     IN  /\ store' = r.store
         /\ memoryCache' = r.memoryCache
         /\ cacheSize' = r.cacheSize
  /\ calls' = [calls EXCEPT ![c].pc = "put"]
  /\ UNCHANGED <<now, lastInsert, lastCall>>

\* addToCache, lines 152-172, and fetchAndCache, line 130.
PutDone(c) ==
  \E t \in 0..MaxClock :
    /\ Tick(t)
    /\ calls[c].pc = "put"
    /\ store' = CachePut(store, [driveFileId |-> calls[c].driveFileId,
                                 size |-> calls[c].size, lastAccessed |-> t])
    /\ cacheSize' = cacheSize + calls[c].size
    /\ calls' = [calls EXCEPT ![c] = Returned(calls[c], "url")]
    /\ UNCHANGED <<memoryCache, lastInsert, lastCall>>

\* updateAccessTime, lines 240-268, and getMedia, lines 72 and 81.
TouchDone(c) ==
  \E t \in 0..MaxClock :
    /\ Tick(t)
    /\ calls[c].pc = "touch"
    /\ store' = updateAccessTime(store, calls[c].driveFileId, t)
    /\ calls' = [calls EXCEPT ![c] = Returned(calls[c], "url")]
    /\ UNCHANGED <<memoryCache, cacheSize, lastInsert, lastCall>>

NextCacheAsync ==
  \/ \E c \in CallIds : CallGetMedia(c) /\ UNCHANGED <<mergeVars, bubbleVars, parseVars, appVars, imageVars>>
  \/ \E c \in CallIds : LookupDone(c) /\ UNCHANGED <<started, mergeVars, bubbleVars, parseVars, appVars, imageVars>>
  \/ \E c \in CallIds : FetchOk(c) /\ UNCHANGED <<started, mergeVars, bubbleVars, parseVars, appVars, imageVars>>
  \/ \E c \in CallIds : FetchFails(c) /\ UNCHANGED <<started, mergeVars, bubbleVars, parseVars, appVars, imageVars>>
  \/ \E c \in CallIds : EvictDone(c) /\ UNCHANGED <<started, mergeVars, bubbleVars, parseVars, appVars, imageVars>>
  \/ \E c \in CallIds : PutDone(c) /\ UNCHANGED <<started, mergeVars, bubbleVars, parseVars, appVars, imageVars>>
  \/ \E c \in CallIds : TouchDone(c) /\ UNCHANGED <<started, mergeVars, bubbleVars, parseVars, appVars, imageVars>>

----------------------------------------------------------------------------
(* chatParser.ts: lines and timestamps                                     *)
(*                                                                         *)
(* A line of the export is held as the parts the regular expressions of    *)
(* the parser take it apart into:                                          *)
(*   pre   - the raw line starts with an invisible mark (U+200E)           *)
(*   open  - a '[' stands before the date                                  *)
(*   date  - <<>> or the three digit strings of a leading D/D/Y date       *)
(*   time  - <<>> or <<hours, minutes, seconds or "", meridiem or "">>     *)
(*           of a ',? time' that follows the date                          *)
(*   close - what follows the time: "]", "-" (a dash) or ""                *)
(*   body  - the rest of the line, as tokens                               *)
(* A line without a leading date has only a body.                          *)

MaxLines == 4

\* const maxScan = Math.min(lines.length, 800), scaled to files of MaxLines lines.
MaxScanLines == 3

\* parseInt on the digit strings of the model.
DigitStrings ==
  { <<"00", 0>>, <<"01", 1>>, <<"02", 2>>, <<"03", 3>>, <<"04", 4>>,
    <<"05", 5>>, <<"06", 6>>, <<"07", 7>>, <<"08", 8>>, <<"09", 9>>,
    <<"10", 10>>, <<"11", 11>>, <<"12", 12>>, <<"13", 13>>, <<"14", 14>>,
    <<"15", 15>>, <<"16", 16>>, <<"17", 17>>, <<"18", 18>>, <<"19", 19>>,
    <<"20", 20>>, <<"21", 21>>, <<"22", 22>>, <<"23", 23>>, <<"24", 24>>,
    <<"25", 25>>, <<"26", 26>>, <<"27", 27>>, <<"28", 28>>, <<"29", 29>>,
    <<"30", 30>>, <<"31", 31>>, <<"45", 45>>, <<"59", 59>>, <<"2024",
    2024>>, <<"2025", 2025>> }

parseInt(str) == (CHOOSE p \in DigitStrings : p[1] = str)[2]

\* The invisible marks normalizeWaText removes.
Invisible == {"u200E", "u200F", "uFEFF", "u00A0"}

RECURSIVE RemoveInvisible(_)
RemoveInvisible(s) ==
  IF s = <<>> THEN <<>>
  ELSE IF Head(s) \in Invisible THEN RemoveInvisible(Tail(s))
  ELSE <<Head(s)>> \o RemoveInvisible(Tail(s))

\* replace(/\s+/g, ' ')
RECURSIVE CollapseSpace(_)
CollapseSpace(s) ==
  IF s = <<>> THEN <<>>
  ELSE IF Head(s) \in WhiteSpace
  THEN <<" ">> \o CollapseSpace(TrimStart(s))
  ELSE <<Head(s)>> \o CollapseSpace(Tail(s))

\* normalizeWaText on a text
normalizeWaText(s) == Trim(CollapseSpace(RemoveInvisible(s)))

HasPrefix(line) == line.open \/ line.date # <<>>

\* normalizeWaText on a line: the mark in front goes, the body is
\* normalized; white space between the prefix and the body is interior to
\* the line and is collapsed, not trimmed.
normalizeLine(line) ==
  [line EXCEPT
     !.pre = FALSE,
     !.body = IF HasPrefix(line)
              THEN TrimEnd(CollapseSpace(RemoveInvisible(line.body)))
              ELSE normalizeWaText(line.body)]

\* !line
IsEmptyLine(line) == ~HasPrefix(line) /\ line.body = <<>>

\* Days from 1970-01-01 to the first day of month m (1..12) of year y.
DaysFromCivil(y, m) ==
  LET yy  == IF m <= 2 THEN y - 1 ELSE y
      era == yy \div 400
      yoe == yy - era * 400
      mp  == IF m > 2 THEN m - 3 ELSE m + 9
      doy == (153 * mp + 2) \div 5
      doe == yoe * 365 + yoe \div 4 - yoe \div 100 + doy
  IN  era * 146097 + doe - 719468

\* new Date(year, month - 1, day, hours, minutes, seconds), as whole seconds
\* since the epoch (getTime() is 1000 times this; the parser never sets
\* milliseconds).  Fields out of range carry over as the Date constructor
\* does.  Local time is taken to be a zone with a fixed offset of zero.
MakeDate(year, month, day, hours, minutes, seconds) ==
  LET m0 == month - 1
      y  == year + (m0 \div 12)
      m  == (m0 % 12) + 1
  IN  (DaysFromCivil(y, m) + day - 1) * 86400
        + hours * 3600 + minutes * 60 + seconds

\* parseTimestamp.  The hint is "DMY" or "MDY" (parseMessages always passes
\* one); any other value takes the branches that decide from the fields of
\* the line itself.  The meridiem is held upper-cased.
parseTimestampBy(datePart, timePart, dateOrderHint) ==
  LET part1 == parseInt(datePart[1])
      part2 == parseInt(datePart[2])
      part3 == parseInt(datePart[3])
      dayFirst == IF dateOrderHint = "DMY" THEN TRUE
                  ELSE IF dateOrderHint = "MDY" THEN FALSE
                  ELSE IF part1 > 12 THEN TRUE
                  ELSE IF part2 > 12 THEN FALSE
                  ELSE TRUE
      day   == IF dayFirst THEN part1 ELSE part2
      month == IF dayFirst THEN part2 ELSE part1
      year  == IF part3 < 100 THEN part3 + 2000 ELSE part3
      h0      == parseInt(timePart[1])
      minutes == parseInt(timePart[2])
      seconds == IF timePart[3] # "" THEN parseInt(timePart[3]) ELSE 0
      meridiem == timePart[4]
      hours == IF meridiem = "PM" /\ h0 < 12 THEN h0 + 12
               ELSE IF meridiem = "AM" /\ h0 = 12 THEN 0 ELSE h0
  IN  MakeDate(year, month, day, hours, minutes, seconds)

\* Mutant of parseTimestamp: the hint is ignored and the order is decided
\* for each line from its own fields.
parseTimestamp_PerLine(datePart, timePart, dateOrderHint) ==
  parseTimestampBy(datePart, timePart, "none")

parseTimestamp(datePart, timePart, dateOrderHint) ==
  parseTimestampBy(datePart, timePart, dateOrderHint)

\* line.match(/^\[?(\d{1,2})\/(\d{1,2})\/(\d{2,4})/) on the raw line
DatePrefixed(line) == ~line.pre /\ line.date # <<>>

\* The loop of lines 394-403.
RECURSIVE InferLoop(_, _, _, _, _)
InferLoop(fileLines, i, maxScan, dmyEvidence, mdyEvidence) ==
  IF i > maxScan
  THEN [dmyEvidence |-> dmyEvidence, mdyEvidence |-> mdyEvidence]
  ELSE LET line == fileLines[i] IN
       IF ~DatePrefixed(line)
       THEN InferLoop(fileLines, i + 1, maxScan, dmyEvidence, mdyEvidence)
       ELSE LET a == parseInt(line.date[1])
                b == parseInt(line.date[2])
            IN  InferLoop(fileLines, i + 1, maxScan,
                          IF a > 12 THEN dmyEvidence + 1 ELSE dmyEvidence,
                          IF b > 12 THEN mdyEvidence + 1 ELSE mdyEvidence)

\* Mutant of inferDateOrder: a tie is decided for month-first.
inferDateOrder_TieMonthFirst(fileLines) ==
  With(InferLoop(fileLines, 1, Min(Len(fileLines), MaxScanLines), 0, 0),
       LAMBDA e :
         IF e.mdyEvidence >= e.dmyEvidence /\ e.mdyEvidence > 0
         THEN "MDY" ELSE "DMY")

\* inferDateOrder
inferDateOrder(fileLines) ==
  With(InferLoop(fileLines, 1, Min(Len(fileLines), MaxScanLines), 0, 0),
       LAMBDA e :
         IF e.dmyEvidence > 0 /\ e.mdyEvidence = 0 THEN "DMY"
         ELSE IF e.mdyEvidence > 0 /\ e.dmyEvidence = 0 THEN "MDY"
         ELSE IF e.mdyEvidence > e.dmyEvidence THEN "MDY"
         ELSE "DMY")

----------------------------------------------------------------------------
(* chatParser.ts: line classification                                      *)

\* Index of the first element of s at position i or later that equals tok,
\* or 0 (indexOf).
RECURSIVE IndexFrom(_, _, _)
IndexFrom(s, tok, i) ==
  IF i > Len(s) THEN 0
  ELSE IF s[i] = tok THEN i
  ELSE IndexFrom(s, tok, i + 1)

IndexOf(s, tok) == IndexFrom(s, tok, 1)

LeadingSpace(s) == Len(s) - Len(TrimStart(s))

\* androidRegex, europeanRegex, androidSystem: date, time, dash.
\* iosRegex, iosSystem: '[', date, time, ']'.
AndroidPrefix(line) ==
  ~line.open /\ line.date # <<>> /\ line.time # <<>> /\ line.close = "-"
EuropeanPrefix(line) == AndroidPrefix(line) /\ line.time[4] = ""
IosPrefix(line) ==
  line.open /\ line.date # <<>> /\ line.time # <<>> /\ line.close = "]"

\* The tail \s*([^:]+?):\s*(.*)$ of the three message patterns on the text
\* behind the dash or the bracket: the sender ends before the first ':' and
\* has at least one character, content is what follows ':' and white space.
SenderSplit(body) ==
  LET i == IndexOf(body, ":")
      start == Min(LeadingSpace(body), i - 2) + 1
  IN  IF i >= 2
      THEN <<[sender |-> SubSeq(body, start, i - 1),
              content |-> TrimStart(SubSeq(body, i + 1, Len(body)))]>>
      ELSE <<>>

\* matchMessageLine: <<>> for null.  lineNo stands for the `line` field (the
\* line the match was made from).
matchMessageLine(line, lineNo, order) ==
  With(SenderSplit(line.body), LAMBDA split :
    IF (AndroidPrefix(line) \/ IosPrefix(line) \/ EuropeanPrefix(line))
       /\ split # <<>>
    THEN <<[timestamp |-> parseTimestamp(line.date, line.time, order),
            sender |-> normalizeWaText(split[1].sender),
            content |-> normalizeWaText(split[1].content),
            lineNo |-> lineNo,
            isSystemLine |-> FALSE]>>
    ELSE <<>>)

\* /^[^:]+?:\s/.test(rest)
LooksLikeSender(rest) ==
  LET i == IndexOf(rest, ":")
  IN  i >= 2 /\ i < Len(rest) /\ rest[i + 1] \in WhiteSpace

\* matchSystemLine: <<>> for null.
matchSystemLine(line, lineNo, order) ==
  With(TrimStart(line.body), LAMBDA rest :
  With(normalizeWaText(rest), LAMBDA cleaned :
    IF (AndroidPrefix(line) \/ IosPrefix(line))
       /\ ~LooksLikeSender(rest) /\ cleaned # <<>>
    THEN <<[timestamp |-> parseTimestamp(line.date, line.time, order),
            sender |-> <<"System">>, content |-> cleaned,
            lineNo |-> lineNo, isSystemLine |-> TRUE]>>
    ELSE <<>>))

\* The test of line 201: the line begins with date, time and ']'.
startsWithTimestamp(line) ==
  line.date # <<>> /\ line.time # <<>> /\ line.close = "]"

\* The text of a normalized line, as appended to an open message.
LineText(line) ==
  (IF line.open THEN <<"[">> ELSE <<>>)
  \o (IF line.date # <<>>
      THEN <<line.date[1], "/", line.date[2], "/", line.date[3]>> ELSE <<>>)
  \o (IF line.time # <<>>
      THEN <<",", " ", line.time[1], ":", line.time[2]>>
           \o (IF line.time[3] # "" THEN <<":", line.time[3]>> ELSE <<>>)
           \o (IF line.time[4] # "" THEN <<" ", line.time[4]>> ELSE <<>>)
      ELSE <<>>)
  \o (IF line.close = "]" THEN <<"]">>
      ELSE IF line.close = "-" THEN <<" ", "-">> ELSE <<>>)
  \o line.body

----------------------------------------------------------------------------
(* chatParser.ts: message assembly                                         *)

\* s contains sub as a run of consecutive elements (String.includes).
Includes(s, sub) ==
  \E i \in 0..(Len(s) - Len(sub)) : SubSeq(s, i + 1, i + Len(sub)) = sub

EndsWith(s, suffix) ==
  Len(suffix) <= Len(s) /\ SubSeq(s, Len(s) - Len(suffix) + 1, Len(s)) = suffix

StartsWith(s, prefix) ==
  Len(prefix) <= Len(s) /\ SubSeq(s, 1, Len(prefix)) = prefix

\* name.split('/').pop()
RECURSIVE LastSegment(_)
LastSegment(s) ==
  IF IndexOf(s, "/") = 0 THEN s
  ELSE LastSegment(SubSeq(s, IndexOf(s, "/") + 1, Len(s)))

\* Tokens that are runs of digits, with 5 digits or more (numericId), and
\* tokens of the shape yyyy-mm-dd or yyyy-mm-dd-hh-mm-ss (datePortion).
LongDigitRuns == {"00174172"}
DatePortions == {"2025-12-23", "2025-12-23-15-04-52"}

\* The first element of s that is in set, as a one-element text, or <<>>.
FirstIn(s, set) ==
  IF \E i \in 1..Len(s) : s[i] \in set
  THEN <<s[CHOOSE i \in 1..Len(s) :
             s[i] \in set /\ \A j \in 1..(i - 1) : s[j] \notin set]>>
  ELSE <<>>

\* mediaFiles.find(pred): the first file of the index with pred, or <<>>.
FindFile(files, Pred(_)) ==
  IF \E i \in 1..Len(files) : Pred(files[i])
  THEN <<files[CHOOSE i \in 1..Len(files) :
                 Pred(files[i]) /\ \A j \in 1..(i - 1) : ~Pred(files[j])]>>
  ELSE <<>>

\* findMediaFile: <<>> for undefined.
findMediaFile(fileName, files) ==
  With(Trim(ToLowerCase(fileName)), LAMBDA normalizedName :
  With(IF LastSegment(normalizedName) # <<>>
       THEN LastSegment(normalizedName) ELSE normalizedName,
       LAMBDA baseFileName :
  LET numericId == IF baseFileName # <<>> /\ baseFileName[1] \in LongDigitRuns
                   THEN <<baseFileName[1]>> ELSE <<>>
      datePortion == FirstIn(baseFileName, DatePortions)
      Exact(file) == \/ ToLowerCase(file.fileName) = normalizedName
                     \/ EndsWith(ToLowerCase(file.fileName),
                                 <<"/">> \o normalizedName)
      Base(file) == LastSegment(ToLowerCase(file.fileName)) = baseFileName
      Fuzzy(file) == Includes(ToLowerCase(file.fileName), baseFileName)
      ById(file) == Includes(LastSegment(ToLowerCase(file.fileName)), numericId)
      ByDate(file) == Includes(LastSegment(ToLowerCase(file.fileName)), datePortion)
  IN
  With(FindFile(files, Exact), LAMBDA exact :
    IF exact # <<>> THEN exact ELSE
  With(FindFile(files, Base), LAMBDA base :
    IF base # <<>> THEN base ELSE
  With(FindFile(files, Fuzzy), LAMBDA fuzzy :
    IF fuzzy # <<>> THEN fuzzy ELSE
  With(IF numericId # <<>> THEN FindFile(files, ById) ELSE <<>>, LAMBDA byId :
    IF byId # <<>> THEN byId
    ELSE IF datePortion # <<>> THEN FindFile(files, ByDate)
    ELSE <<>>))))))

\* getMessageTypeFromMime; a MIME type is <<major, "/", minor>>.
getMessageTypeFromMime(mimeType) ==
  IF StartsWith(mimeType, <<"image", "/">>) THEN "image"
  ELSE IF StartsWith(mimeType, <<"video", "/">>) THEN "video"
  ELSE IF StartsWith(mimeType, <<"audio", "/">>) THEN "audio"
  ELSE IF mimeType = <<"image", "/", "webp">> THEN "sticker"
  ELSE "document"

\* The literal placeholders of line 484, lower-cased.
OmittedPlaceholders ==
  { <<kind, " ", "omitted">> :
      kind \in {"image", "video", "audio", "sticker", "document", "gif"} }

\* Names of the shapes IMG-/VID-/AUD-/PTT-/STK-/DOC-<digits>-WA<digits>.<ext>
\* (mediaPatterns 3 to 8), lower-cased.
DeviceMediaNames == {"img-9999-wa0001.jpg"}

\* Index of the first '>' of c at position from or later, or 0.
NextClose(c, from) == IndexFrom(c, ">", from)

\* /<attached:\s*(.+?)>/i at position p of c: <<>> or the match
\* [first, last, name]; \s* gives white space back when the name would
\* otherwise be empty.
AttachedAt(c, p) ==
  IF p + 1 <= Len(c) /\ ToLowerTok(c[p]) = "<attached" /\ c[p + 1] = ":"
  THEN LET after == SubSeq(c, p + 2, Len(c))
           k == LeadingSpace(after)
           Ok(n) == NextClose(c, p + 2 + n + 1) # 0
       IN  IF \E n \in 0..k : Ok(n)
           THEN LET n == CHOOSE x \in 0..k :
                           Ok(x) /\ \A y \in (x + 1)..k : ~Ok(y)
                    r == NextClose(c, p + 2 + n + 1)
                IN  <<[first |-> p, last |-> r,
                       name |-> SubSeq(c, p + 2 + n, r - 1)]>>
           ELSE <<>>
  ELSE <<>>

\* The leftmost match of the pattern at position p or later.
RECURSIVE AttachedFrom(_, _)
AttachedFrom(c, p) ==
  IF p > Len(c) THEN <<>>
  ELSE With(AttachedAt(c, p), LAMBDA m :
         IF m # <<>> THEN m ELSE AttachedFrom(c, p + 1))

AttachedMatch(c) == AttachedFrom(c, 1)

\* /(.+?)\s*\(file attached\)/i: the name runs from the start of c to the
\* white space before the first '(file attached)' that is not the first token.
RECURSIVE TrailingSpace(_)
TrailingSpace(s) ==
  IF s # <<>> /\ s[Len(s)] \in WhiteSpace
  THEN 1 + TrailingSpace(SubSeq(s, 1, Len(s) - 1)) ELSE 0

FileAttachedMatch(c) ==
  LET Is(j) == ToLowerCase(<<c[j]>>) = <<"(file attached)">> IN
  IF \E j \in 2..Len(c) : Is(j)
  THEN LET j == CHOOSE x \in 2..Len(c) : Is(x) /\ \A y \in 2..(x - 1) : ~Is(y)
           u == TrailingSpace(SubSeq(c, 2, j - 1))
       IN  <<[first |-> 1, last |-> j, name |-> SubSeq(c, 1, j - 1 - u)]>>
  ELSE <<>>

DeviceNameMatch(c) ==
  IF Len(c) = 1 /\ ToLowerTok(c[1]) \in DeviceMediaNames
  THEN <<[first |-> 1, last |-> 1, name |-> c]>>
  ELSE <<>>

\* The first of the mediaPatterns that matches c.
MediaMatch(c) ==
  With(AttachedMatch(c), LAMBDA a :
    IF a # <<>> THEN a ELSE
  With(FileAttachedMatch(c), LAMBDA f :
    IF f # <<>> THEN f ELSE DeviceNameMatch(c)))

\* c.replace(pattern, '').trim()
CaptionOf(c, m) ==
  Trim(SubSeq(c, 1, m.first - 1) \o SubSeq(c, m.last + 1, Len(c)))

NoMedia ==
  [mediaUrl |-> "", mediaFileName |-> <<>>, mediaMimeType |-> <<>>,
   driveFileId |-> ""]

\* detectMessageType
detectMessageType(content, files) ==
  With(normalizeWaText(content), LAMBDA c :
  IF ToLowerCase(c) \in OmittedPlaceholders
  THEN [type |-> "text", media |-> NoMedia, finalContent |-> <<"__OMITTED_MEDIA__">>]
  ELSE
  With(MediaMatch(c), LAMBDA mm :
  IF mm # <<>>
  THEN With(mm[1], LAMBDA m :
       With(findMediaFile(m.name, files), LAMBDA mediaFile :
       With(CaptionOf(c, m), LAMBDA caption :
         IF mediaFile # <<>>
         THEN [type |-> getMessageTypeFromMime(mediaFile[1].mimeType),
               media |-> [mediaUrl |-> mediaFile[1].url,
                          mediaFileName |-> mediaFile[1].fileName,
                          mediaMimeType |-> mediaFile[1].mimeType,
                          driveFileId |-> mediaFile[1].driveFileId],
               finalContent |-> caption]
         ELSE [type |-> "text", media |-> NoMedia,
               finalContent |->
                 IF caption # <<>> THEN caption
                 ELSE <<"[Media not found: ">> \o m.name \o <<"]">>])))
  ELSE [type |-> "text", media |-> NoMedia, finalContent |-> c]))

\* The last index at which tok stands in s, or 0 (lastIndexOf).
LastIndexOf(s, tok) ==
  IF \E i \in 1..Len(s) : s[i] = tok
  THEN CHOOSE i \in 1..Len(s) : s[i] = tok /\ \A j \in (i + 1)..Len(s) : s[j] # tok
  ELSE 0

\* stripEditedMarker
stripEditedMarker(text) ==
  LET idx == LastIndexOf(text, "<This message was edited>")
  IN  IF idx = 0 THEN [cleaned |-> text, isEdited |-> FALSE]
      ELSE [cleaned |-> Trim(SubSeq(text, 1, idx - 1)
                             \o SubSeq(text, idx + 1, Len(text))),
            isEdited |-> TRUE]

\* /^(.+?):\s(.+)$/ on the first line of a body: <<>> or the two groups.
QuoteHead(first) ==
  IF \E i \in 2..(Len(first) - 2) :
       first[i] = ":" /\ first[i + 1] \in WhiteSpace
  THEN LET i == CHOOSE x \in 2..(Len(first) - 2) :
                  /\ first[x] = ":" /\ first[x + 1] \in WhiteSpace
                  /\ \A y \in 2..(x - 1) :
                       ~(first[y] = ":" /\ first[y + 1] \in WhiteSpace)
       IN  <<[sender |-> Trim(SubSeq(first, 1, i - 1)),
              content |-> Trim(SubSeq(first, i + 2, Len(first)))]>>
  ELSE <<>>

\* extractQuotedMessage: quotedMessage is <<>> when absent.
extractQuotedMessage(text) ==
  With(IndexOf(text, "\n"), LAMBDA nl :
  IF nl = 0 THEN [cleaned |-> text, quotedMessage |-> <<>>]
  ELSE With(Trim(SubSeq(text, 1, nl - 1)), LAMBDA first :
       With(Trim(SubSeq(text, nl + 1, Len(text))), LAMBDA rest :
       With(QuoteHead(first), LAMBDA m :
         IF m = <<>> \/ m[1].sender = <<>> \/ m[1].content = <<>> \/ rest = <<>>
         THEN [cleaned |-> text, quotedMessage |-> <<>>]
         ELSE [cleaned |-> rest, quotedMessage |-> m]))))

\* The rest of a call line behind 'voice call' / 'video call', an optional
\* comma and white space ((?:,)?\s*(.*)$), trimmed; <<>> when absent.
CallDuration(t) ==
  LET rest == SubSeq(t, 4, Len(t))
  IN  Trim(IF rest # <<>> /\ Head(rest) = "," THEN Tail(rest) ELSE rest)

\* detectCallLog; callKind is "" and callDuration <<>> when absent.
detectCallLog(text) ==
  LET t == Trim(text)
      l == ToLowerCase(t)
  IN
  IF StartsWith(l, <<"missed", " ", "voice", " ", "call">>)
  THEN [isCall |-> TRUE, callKind |-> "voice", callMissed |-> TRUE,
        callDuration |-> <<>>]
  ELSE IF StartsWith(l, <<"missed", " ", "video", " ", "call">>)
  THEN [isCall |-> TRUE, callKind |-> "video", callMissed |-> TRUE,
        callDuration |-> <<>>]
  ELSE IF StartsWith(l, <<"voice", " ", "call">>)
  THEN [isCall |-> TRUE, callKind |-> "voice", callMissed |-> FALSE,
        callDuration |-> CallDuration(t)]
  ELSE IF StartsWith(l, <<"video", " ", "call">>)
  THEN [isCall |-> TRUE, callKind |-> "video", callMissed |-> FALSE,
        callDuration |-> CallDuration(t)]
  ELSE [isCall |-> FALSE, callKind |-> "", callMissed |-> FALSE,
        callDuration |-> <<>>]

\* The digits of the tokens a sender can be made of (input.replace(/\D/g, '')).
DigitsOfToken ==
  { <<"+91", <<"9", "1">> >>,
    <<"9886031088", <<"9", "8", "8", "6", "0", "3", "1", "0", "8", "8">> >>,
    <<"98860", <<"9", "8", "8", "6", "0">> >>,
    <<"31088", <<"3", "1", "0", "8", "8">> >> }

RECURSIVE DigitsOf(_)
DigitsOf(s) ==
  IF s = <<>> THEN <<>>
  ELSE (IF \E p \in DigitsOfToken : p[1] = Head(s)
        THEN (CHOOSE p \in DigitsOfToken : p[1] = Head(s))[2] ELSE <<>>)
       \o DigitsOf(Tail(s))

\* normalizePhone
normalizePhone(input) ==
  LET digits == DigitsOf(input)
  IN  IF Len(digits) > 10 THEN SubSeq(digits, Len(digits) - 9, Len(digits))
      ELSE digits

\* USER_IDENTITY
USER_IDENTITY ==
  [displayName |-> <<"Rajiv">>,
   phoneNumbers |-> {<<"+91", "9886031088">>, <<"9886031088">>}]

isMeSender_NameOnly(sender) ==
  Trim(sender) # <<>>
  /\ ToLowerCase(Trim(sender)) = ToLowerCase(USER_IDENTITY.displayName)

\* isMeSender
isMeSender(sender) ==
  LET str == Trim(sender) IN
  IF str = <<>> THEN FALSE
  ELSE IF ToLowerCase(str) = ToLowerCase(USER_IDENTITY.displayName) THEN TRUE
  ELSE IF normalizePhone(str) = <<>> THEN FALSE
  ELSE \E ph \in USER_IDENTITY.phoneNumbers :
         normalizePhone(ph) = normalizePhone(str)

\* Mutant of createMessage: a body that reads like a group event makes the
\* message a system message.
createMessage_InferSystem(match, files, seq) ==
  With(detectMessageType(match.content, files), LAMBDA d :
  With(stripEditedMarker(d.finalContent), LAMBDA e :
  With(extractQuotedMessage(e.cleaned), LAMBDA q :
  With(detectCallLog(q.cleaned), LAMBDA call :
  With(match.isSystemLine = TRUE
         \/ Includes(ToLowerCase(q.cleaned), <<"added">>), LAMBDA isSystem :
    [seq |-> seq, lineNo |-> match.lineNo, body |-> match.content,
     timestamp |-> match.timestamp, sender |-> match.sender,
     type |-> IF isSystem THEN "system"
              ELSE IF call.isCall THEN "call" ELSE d.type,
     content |-> q.cleaned,
     mediaUrl |-> d.media.mediaUrl,
     mediaFileName |-> d.media.mediaFileName,
     mediaMimeType |-> d.media.mediaMimeType,
     driveFileId |-> d.media.driveFileId,
     isOutgoing |-> ~isSystem /\ isMeSender(match.sender),
     isEdited |-> e.isEdited,
     quotedMessage |-> q.quotedMessage,
     callKind |-> call.callKind, callMissed |-> call.callMissed,
     callDuration |-> call.callDuration])))))

\* createMessage.  seq is the ordinal the id is generated from; lineNo (the
\* line the match was made from) and body (the assembled body, match.content)
\* are kept for reference and are not fields of Message.
createMessage(match, files, seq) ==
  With(detectMessageType(match.content, files), LAMBDA d :
  With(stripEditedMarker(d.finalContent), LAMBDA e :
  With(extractQuotedMessage(e.cleaned), LAMBDA q :
  With(detectCallLog(q.cleaned), LAMBDA call :
  With(match.isSystemLine = TRUE, LAMBDA isSystem :
    [seq |-> seq, lineNo |-> match.lineNo, body |-> match.content,
     timestamp |-> match.timestamp, sender |-> match.sender,
     type |-> IF isSystem THEN "system"
              ELSE IF call.isCall THEN "call" ELSE d.type,
     content |-> q.cleaned,
     mediaUrl |-> d.media.mediaUrl,
     mediaFileName |-> d.media.mediaFileName,
     mediaMimeType |-> d.media.mediaMimeType,
     driveFileId |-> d.media.driveFileId,
     isOutgoing |-> ~isSystem /\ isMeSender(match.sender),
     isEdited |-> e.isEdited,
     quotedMessage |-> q.quotedMessage,
     callKind |-> call.callKind, callMissed |-> call.callMissed,
     callDuration |-> call.callDuration])))))

\* messages.push(createMessage(currentMessage, mediaFiles, messages.length))
\* when there is a current message.
PushCurrent(messages, currentMessage, files) ==
  IF currentMessage # <<>>
  THEN Append(messages, createMessage(currentMessage[1], files, Len(messages)))
  ELSE messages

\* Mutant of IsHeaderLine: no line is taken for a header.
IsHeaderLine_Never(i) == FALSE

\* if (i < 5): one of the first few lines, which may be a header; i counts
\* from 1 here.
IsHeaderLine(i) == i - 1 < 5

\* The loop of parseMessages, lines 181-222, from line i on; currentMessage
\* is <<>> for null.
RECURSIVE ParseLoop(_, _, _, _, _, _, _)
ParseLoop(fileLines, i, order, files, messages, currentMessage, errors) ==
  IF i > Len(fileLines)
  THEN [messages |-> PushCurrent(messages, currentMessage, files),
        errors |-> errors]
  ELSE
  With(normalizeLine(fileLines[i]), LAMBDA line :
  IF IsEmptyLine(line)
  THEN ParseLoop(fileLines, i + 1, order, files, messages, currentMessage, errors)
  ELSE
  With(matchMessageLine(line, i, order), LAMBDA user :
  With(IF user # <<>> THEN user ELSE matchSystemLine(line, i, order),
       LAMBDA match :
  IF match # <<>>
  THEN With(PushCurrent(messages, currentMessage, files), LAMBDA flushed :
         ParseLoop(fileLines, i + 1, order, files, flushed, match, errors))
  ELSE IF currentMessage # <<>>
  THEN IF startsWithTimestamp(line)
       THEN With(IF Trim(currentMessage[1].content) # <<>>
                 THEN PushCurrent(messages, currentMessage, files)
                 ELSE messages,
                 LAMBDA kept :
              ParseLoop(fileLines, i + 1, order, files, kept, <<>>, errors))
       ELSE With(<<[currentMessage[1] EXCEPT
                      !.content = @ \o <<"\n">> \o LineText(line)]>>,
                 LAMBDA grown :
              ParseLoop(fileLines, i + 1, order, files, messages, grown, errors))
  ELSE IF IsHeaderLine(i)
  THEN ParseLoop(fileLines, i + 1, order, files, messages, currentMessage, errors)
  ELSE With(Append(errors, i), LAMBDA more :
         ParseLoop(fileLines, i + 1, order, files, messages, currentMessage,
                   more)))))

\* The filter of lines 230-234.
Kept(msg) ==
  IF msg.type # "text" THEN TRUE
  ELSE IF msg.content = <<"__OMITTED_MEDIA__">> THEN FALSE
  ELSE Trim(msg.content) # <<>>

\* parseMessages: the order is inferred once, then every line is classified.
parseMessages(fileLines, files) ==
  With(inferDateOrder(fileLines), LAMBDA order :
  With(ParseLoop(fileLines, 1, order, files, <<>>, <<>>, <<>>), LAMBDA r :
    [dateOrder |-> order,
     messages |-> SelectSeq(r.messages, Kept),
     errors |-> r.errors]))

----------------------------------------------------------------------------
(* chatParser.ts: parseChatFile.  The chat name is not modelled.  An entry  *)
(* of the errors list is the number of the line it is about, 0 for 'Failed  *)
(* to parse chat: ...' and -1 for 'No messages found in chat file'.         *)

NoChat == [participants |-> <<>>, isGroup |-> FALSE, thrown |-> FALSE]

\* extractParticipants: the names in the order they are first seen.
RECURSIVE extractParticipants(_, _)
extractParticipants(messages, seen) ==
  IF messages = <<>> THEN seen
  ELSE IF Head(messages).type # "system"
          /\ \A k \in 1..Len(seen) : seen[k] # Head(messages).sender
  THEN extractParticipants(Tail(messages), Append(seen, Head(messages).sender))
  ELSE extractParticipants(Tail(messages), seen)

\* detectGroupIndicators(content): /added/i, /removed/i and /created group/i
\* on the words of the file.
detectGroupIndicators(fileLines) ==
  \E i \in 1..Len(fileLines) :
    LET text == LineText(fileLines[i])
        Is(k, word) == k <= Len(text) /\ ToLowerTok(text[k]) = word
    IN  \E k \in 1..Len(text) :
          \/ Is(k, "added") \/ Is(k, "removed")
          \/ Is(k, "created") /\ Is(k + 1, " ") /\ Is(k + 2, "group")

\* Lines 74-86: in a chat of two the other participant comes first.
OrderParticipants(participants) ==
  IF Len(participants) = 2
     /\ \E k \in 1..2 : isMeSender(participants[k])
     /\ \E j \in 1..2 : ~isMeSender(participants[j])
  THEN IF isMeSender(participants[1])
       THEN <<participants[2], participants[1]>> ELSE participants
  ELSE participants

\* Mutant of parseChatFile: the exception is not caught.
parseChatFile_NoCatch(isText, fileLines, files) ==
  [dateOrder |-> "", messages |-> <<>>, participants |-> <<>>,
   isGroup |-> FALSE, errors |-> <<>>, thrown |-> ~isText]

\* parseChatFile.  content.split of line 173 throws when the content is not a
\* string; the catch block of lines 94-108 returns the minimal chat.
parseChatFile(isText, fileLines, files) ==
  IF ~isText
  THEN [dateOrder |-> "", messages |-> <<>>, participants |-> <<>>,
        isGroup |-> FALSE, errors |-> <<0>>, thrown |-> FALSE]
  ELSE
  With(parseMessages(fileLines, files), LAMBDA r :
  With(extractParticipants(r.messages, <<>>), LAMBDA participants :
    [dateOrder |-> r.dateOrder,
     messages |-> r.messages,
     participants |-> OrderParticipants(participants),
     isGroup |-> /\ (Len(participants) > 2 \/ detectGroupIndicators(fileLines))
                 /\ Len(participants) # 2,
     errors |-> r.errors \o (IF r.messages = <<>> THEN <<-1>> ELSE <<>>),
     thrown |-> FALSE]))

----------------------------------------------------------------------------
(* chatParser.ts: the source files and attachment indexes of the model     *)

AndroidLine(d1, d2, y, h, m, body) ==
  [pre |-> FALSE, open |-> FALSE, date |-> <<d1, d2, y>>,
   time |-> <<h, m, "", "">>, close |-> "-", body |-> body]

IosLine(pre, d1, d2, y, h, m, sec, mer, body) ==
  [pre |-> pre, open |-> TRUE, date |-> <<d1, d2, y>>,
   time |-> <<h, m, sec, mer>>, close |-> "]", body |-> body]

TextLine(body) ==
  [pre |-> FALSE, open |-> FALSE, date |-> <<>>, time |-> <<>>,
   close |-> "", body |-> body]

AttachedMissing == <<"<attached", ":", " ", "IMG-9999-WA0001.jpg", ">">>

\* 31/01/2024, 10:00 - Alice: hi
LineDayFirst ==
  AndroidLine("31", "01", "2024", "10", "00", <<" ", "Alice", ":", " ", "hi">>)
\* 02/03/2024, 10:05 - Bob: They added value to my life
LineAdded ==
  AndroidLine("02", "03", "2024", "10", "05",
              <<" ", "Bob", ":", " ", "They", " ", "added", " ", "value",
                " ", "to", " ", "my", " ", "life">>)
\* [01/13/24, 10:00:05 PM] Alice: <attached: IMG-9999-WA0001.jpg>
LineMonthFirst ==
  IosLine(FALSE, "01", "13", "24", "10", "00", "05", "PM",
          <<" ", "Alice", ":", " ">> \o AttachedMissing)
\* 02/03/2024, 10:06 - Bob: <attached: IMG-9999-WA0001.jpg> nice
LineCaption ==
  AndroidLine("02", "03", "2024", "10", "06",
              <<" ", "Bob", ":", " ">> \o AttachedMissing \o <<" ", "nice">>)
\* 02/03/2024, 10:07 - Alice added Bob
LineSystem ==
  AndroidLine("02", "03", "2024", "10", "07",
              <<" ", "Alice", " ", "added", " ", "Bob">>)
\* and more
LineContinuation == TextLine(<<"and", " ", "more">>)
\* 05/02/2024, 11:00 - Rajiv: IMG-1.jpg (file attached)
LineFileAttached ==
  AndroidLine("05", "02", "2024", "11", "00",
              <<" ", "Rajiv", ":", " ", "IMG-1.jpg", " ", "(file attached)">>)
\* <U+200E>[31/01/2024, 10:00:00] Alice: image omitted
LineOmitted ==
  IosLine(TRUE, "31", "01", "2024", "10", "00", "00", "",
          <<" ", "Alice", ":", " ", "image", " ", "omitted">>)
\* 02/03/2024, 10:08 -
LineBareStamp == AndroidLine("02", "03", "2024", "10", "08", <<>>)
\* [02/03/2024, 10:08:30]
LineBracketStamp == IosLine(FALSE, "02", "03", "2024", "10", "08", "30", "", <<>>)
\* 02/03/2024, 10:09 - Missed voice call
LineMissedCall ==
  AndroidLine("02", "03", "2024", "10", "09",
              <<" ", "Missed", " ", "voice", " ", "call">>)
\* 02/03/2024, 10:10 - Alice: Bob: hi
LineReply ==
  AndroidLine("02", "03", "2024", "10", "10",
              <<" ", "Alice", ":", " ", "Bob", ":", " ", "hi">>)

ParseLines ==
  { LineDayFirst, LineAdded, LineMonthFirst, LineCaption, LineSystem,
    LineContinuation, LineFileAttached, LineOmitted }

\* 02/03/2024, 10:11 - +91 98860 31088: hi
LineFromMyPhone ==
  AndroidLine("02", "03", "2024", "10", "11",
              <<" ", "+91", " ", "98860", " ", "31088", ":", " ", "hi">>)
\* 02/03/2024, 10:12 - RAJIV: hi
LineFromMyName ==
  AndroidLine("02", "03", "2024", "10", "12", <<" ", "RAJIV", ":", " ", "hi">>)

\* The lines of files with timestamp lines that do not parse, call lines,
\* replies and the local user's names.
EdgeLines ==
  { LineDayFirst, LineSystem, LineContinuation, LineFileAttached,
    LineBareStamp, LineBracketStamp, LineMissedCall, LineReply,
    LineFromMyPhone, LineFromMyName }

\* The attachment index of a backup folder that holds IMG-1.jpg.
MediaIndex ==
  << [fileName |-> <<"WhatsApp", "/", "IMG-1.jpg">>,
      mimeType |-> <<"image", "/", "jpeg">>,
      url |-> "blob:1", driveFileId |-> "f1"] >>

\* The caller reads one more line of the file.
AppendLine ==
  /\ ~parseDone
  /\ Len(lines) < MaxLines
  /\ contentIsText
  /\ \E l \in ParseLines : lines' = Append(lines, l)
  /\ UNCHANGED <<mediaFiles, dateOrder, parsed, parseErrors, parseDone,
                 contentIsText, chat>>

MaxEdgeLines == 3

\* The caller reads one more line of a file made of EdgeLines.
AppendEdgeLine ==
  /\ ~parseDone
  /\ Len(lines) < MaxEdgeLines
  /\ contentIsText
  /\ \E l \in EdgeLines : lines' = Append(lines, l)
  /\ UNCHANGED <<mediaFiles, dateOrder, parsed, parseErrors, parseDone,
                 contentIsText, chat>>

MaxHeaderLines == 7

\* An empty line of the file.
BlankLine == TextLine(<<>>)

\* The lines of a file that begins with lines that are not messages.
HeaderLines == { BlankLine, LineContinuation, LineDayFirst }

AppendHeaderLine ==
  /\ ~parseDone
  /\ Len(lines) < MaxHeaderLines
  /\ contentIsText
  /\ \E l \in HeaderLines : lines' = Append(lines, l)
  /\ UNCHANGED <<mediaFiles, dateOrder, parsed, parseErrors, parseDone,
                 contentIsText, chat>>

\* The caller found attachments in the backup folder.
LoadMediaIndex ==
  /\ ~parseDone
  /\ lines = <<>>
  /\ mediaFiles = <<>>
  /\ mediaFiles' = MediaIndex
  /\ UNCHANGED <<lines, dateOrder, parsed, parseErrors, parseDone,
                 contentIsText, chat>>

\* The source arrives with content of an unexpected shape (not a string).
ReceiveMalformed ==
  /\ ~parseDone
  /\ lines = <<>>
  /\ contentIsText
  /\ contentIsText' = FALSE
  /\ UNCHANGED <<lines, mediaFiles, dateOrder, parsed, parseErrors, parseDone, chat>>

\* parseChatFile(fileName, content, mediaFiles)
Parse ==
  /\ ~parseDone
  /\ \E r \in {parseChatFile(contentIsText, lines, mediaFiles)} :
       /\ dateOrder' = r.dateOrder
       /\ parsed' = r.messages
       /\ parseErrors' = r.errors
       /\ chat' = [participants |-> r.participants, isGroup |-> r.isGroup,
                   thrown |-> r.thrown]
  /\ parseDone' = TRUE
  /\ UNCHANGED <<lines, mediaFiles, contentIsText>>

NextParse ==
  \/ (AppendLine /\ UNCHANGED <<mergeVars, bubbleVars, cacheVars, appVars, imageVars>>)
  \/ (LoadMediaIndex /\ UNCHANGED <<mergeVars, bubbleVars, cacheVars, appVars, imageVars>>)
  \/ (Parse /\ UNCHANGED <<mergeVars, bubbleVars, cacheVars, appVars, imageVars>>)

NextParseEdge ==
  \/ (AppendEdgeLine /\ UNCHANGED <<mergeVars, bubbleVars, cacheVars, appVars, imageVars>>)
  \/ (ReceiveMalformed /\ UNCHANGED <<mergeVars, bubbleVars, cacheVars, appVars, imageVars>>)
  \/ (LoadMediaIndex /\ UNCHANGED <<mergeVars, bubbleVars, cacheVars, appVars, imageVars>>)
  \/ (Parse /\ UNCHANGED <<mergeVars, bubbleVars, cacheVars, appVars, imageVars>>)

NextParseHeader ==
  \/ (AppendHeaderLine /\ UNCHANGED <<mergeVars, bubbleVars, cacheVars, appVars, imageVars>>)
  \/ (Parse /\ UNCHANGED <<mergeVars, bubbleVars, cacheVars, appVars, imageVars>>)

----------------------------------------------------------------------------
(* Specifications                                                          *)

----------------------------------------------------------------------------
(* App.tsx: the private chats of the Drive view.  A folder is named by its *)
(* id; the chat loadChat returns for a folder has the id of the folder.    *)

PublicFolders == {"pub1"}
PrivateFolders == {"priv1", "priv2"}
ChatFolders == PublicFolders \cup PrivateFolders

MaxLoads == 2

\* The sequence s without its element i.
RemoveAt(s, i) == SubSeq(s, 1, i - 1) \o SubSeq(s, i + 1, Len(s))

\* The handler of the password prompt is waiting for loadChat.  The prompt is
\* a modal dialog: while it is open the sidebar and the chat view take no
\* input, and its buttons are disabled while its handler runs.
PromptLoading == \E i \in 1..Len(loading) : loading[i].fromPrompt

\* handleDriveChatSelect, up to the await of drive.loadChat.
handleDriveChatSelect(chatFolder) ==
  /\ ~showPasswordPrompt
  /\ selectedChatFolder' = chatFolder
  /\ IF chatFolder \in PrivateFolders /\ ~privateUnlocked
     THEN /\ pendingPrivateChat' = chatFolder
          /\ showPasswordPrompt' = TRUE
          /\ UNCHANGED loading
     ELSE /\ Len(loading) < MaxLoads
          /\ loading' = Append(loading, [folder |-> chatFolder,
                                         fromPrompt |-> FALSE])
          /\ UNCHANGED <<pendingPrivateChat, showPasswordPrompt>>
  /\ UNCHANGED <<selectedChat, privateUnlocked, visiblePrivateChats>>

\* handlePasswordSubmit, up to the await of drive.loadChat; unlockPrivate
\* sets privateUnlocked when the password is the right one.  After a wrong
\* password the prompt is closed with its Cancel button (onClose).
handlePasswordSubmit(isValid) ==
  /\ showPasswordPrompt /\ ~PromptLoading
  /\ IF isValid /\ pendingPrivateChat # ""
     THEN /\ Len(loading) < MaxLoads
          /\ privateUnlocked' = TRUE
          /\ visiblePrivateChats' = Append(visiblePrivateChats, pendingPrivateChat)
          /\ loading' = Append(loading, [folder |-> pendingPrivateChat,
                                         fromPrompt |-> TRUE])
          /\ UNCHANGED <<showPasswordPrompt, pendingPrivateChat>>
     ELSE /\ showPasswordPrompt' = FALSE
          /\ pendingPrivateChat' = ""
          /\ UNCHANGED <<privateUnlocked, visiblePrivateChats, loading>>
  /\ UNCHANGED <<selectedChat, selectedChatFolder>>

\* drive.loadChat returns the chat, or null when the load failed, and the
\* handler that awaited it goes on: setSelectedChat(chat); the handler of
\* the prompt also clears pendingPrivateChat, and the prompt closes.
LoadChatDone(i, loaded) ==
  /\ i \in 1..Len(loading)
  /\ selectedChat' = IF loaded THEN loading[i].folder ELSE selectedChat
  /\ loading' = RemoveAt(loading, i)
  /\ IF loading[i].fromPrompt
     THEN showPasswordPrompt' = FALSE /\ pendingPrivateChat' = ""
     ELSE UNCHANGED <<showPasswordPrompt, pendingPrivateChat>>
  /\ UNCHANGED <<selectedChatFolder, privateUnlocked, visiblePrivateChats>>

\* handleBackToList, the onBack of the chat view.
handleBackToList ==
  /\ selectedChat # "" /\ ~showPasswordPrompt
  /\ IF selectedChatFolder \in PrivateFolders
     THEN visiblePrivateChats' = <<>> /\ privateUnlocked' = FALSE
     ELSE UNCHANGED <<visiblePrivateChats, privateUnlocked>>
  /\ selectedChat' = ""
  /\ selectedChatFolder' = ""
  /\ UNCHANGED <<showPasswordPrompt, pendingPrivateChat, loading>>

NextApp ==
  \/ \E f \in ChatFolders : handleDriveChatSelect(f) /\ UNCHANGED nonAppVars
  \/ \E v \in BOOLEAN : handlePasswordSubmit(v) /\ UNCHANGED nonAppVars
  \/ \E i \in 1..MaxLoads, b \in BOOLEAN :
       LoadChatDone(i, b) /\ UNCHANGED nonAppVars
  \/ (handleBackToList /\ UNCHANGED nonAppVars)

----------------------------------------------------------------------------
(* part_009: the image cache in IndexedDB.  Sizes are in MiB.  images is   *)
(* the object store in the order of its lastAccessedAt index, the least    *)
(* recently accessed image first; Date.now() grows from one request to the *)
(* next, so a record that is put becomes the last one.                     *)

MAX_IMAGE_CACHE_SIZE == 1024

ImageFileIds == {"img1", "img2", "img3"}
ImageSizes == {400, 500}

IdleImageCall == [pc |-> "idle", fileId |-> "", size |-> 0, currentSize |-> 0]

\* getImageCacheSize: the sum of the sizes of the records.
RECURSIVE getImageCacheSize(_)
getImageCacheSize(s) ==
  IF s = <<>> THEN 0 ELSE Head(s).size + getImageCacheSize(Tail(s))

\* The records of s other than the one of fileId.
WithoutImage(s, fileId) == SelectSeq(s, LAMBDA r : r.fileId # fileId)

\* The cursor of evictIfNeeded: the records are deleted in index order while
\* freedSize < sizeToFree.
RECURSIVE EvictImages(_, _, _)
EvictImages(s, freedSize, sizeToFree) ==
  IF s # <<>> /\ freedSize < sizeToFree
  THEN EvictImages(Tail(s), freedSize + Head(s).size, sizeToFree)
  ELSE s

\* getCachedImage(fileId) for an image that is cached: one transaction reads
\* the record and puts it back with lastAccessedAt = Date.now().
getCachedImage(fileId) ==
  /\ \E i \in 1..Len(images) : images[i].fileId = fileId
  /\ images' = WithoutImage(images, fileId)
                 \o SelectSeq(images, LAMBDA r : r.fileId = fileId)
  /\ UNCHANGED imageCalls

\* cacheImage(fileId, blob) is called; it awaits evictIfNeeded(size).
cacheImage(c, fileId, size) ==
  /\ imageCalls[c].pc = "idle"
  /\ imageCalls' = [imageCalls EXCEPT ![c] =
       [pc |-> "size", fileId |-> fileId, size |-> size, currentSize |-> 0]]
  /\ UNCHANGED images

\* evictIfNeeded: the transaction of getImageCacheSize completes, and the
\* function returns when currentSize <= targetSize.
ImageSizeRead(c) ==
  /\ imageCalls[c].pc = "size"
  /\ LET currentSize == getImageCacheSize(images)
         targetSize == MAX_IMAGE_CACHE_SIZE - imageCalls[c].size
     IN  imageCalls' = [imageCalls EXCEPT
           ![c].currentSize = currentSize,
           ![c].pc = IF currentSize <= targetSize THEN "put" ELSE "evict"]
  /\ UNCHANGED images

\* evictIfNeeded: the transaction of the cursor completes.
ImageEvictDone(c) ==
  /\ imageCalls[c].pc = "evict"
  /\ LET targetSize == MAX_IMAGE_CACHE_SIZE - imageCalls[c].size
         sizeToFree == imageCalls[c].currentSize - targetSize
     IN  images' = EvictImages(images, 0, sizeToFree)
  /\ imageCalls' = [imageCalls EXCEPT ![c].pc = "put"]

\* cacheImage: the transaction of store.put completes and the call returns.
ImagePutDone(c) ==
  /\ imageCalls[c].pc = "put"
  /\ images' = Append(WithoutImage(images, imageCalls[c].fileId),
                      [fileId |-> imageCalls[c].fileId,
                       size |-> imageCalls[c].size])
  /\ imageCalls' = [imageCalls EXCEPT ![c] = IdleImageCall]

NextImages ==
  \/ \E f \in ImageFileIds : getCachedImage(f) /\ UNCHANGED nonImageVars
  \/ \E c \in CallIds, f \in ImageFileIds, z \in ImageSizes :
       cacheImage(c, f, z) /\ UNCHANGED nonImageVars
  \/ \E c \in CallIds : ImageSizeRead(c) /\ UNCHANGED nonImageVars
  \/ \E c \in CallIds : ImageEvictDone(c) /\ UNCHANGED nonImageVars
  \/ \E c \in CallIds : ImagePutDone(c) /\ UNCHANGED nonImageVars

Init ==
  /\ allMessages = <<>> /\ pooled = <<>> /\ merged = <<>> /\ mergeDone = FALSE
  /\ bubbleInput = <<>> /\ bubbleGroups = <<>> /\ bubbleDone = FALSE
  /\ store = <<>> /\ memoryCache = {} /\ cacheSize = 0 /\ now = 0
  /\ lastInsert = <<>> /\ lastCall = <<>>
  /\ calls = [c \in CallIds |-> IdleCall] /\ started = 0
  /\ lines = <<>> /\ mediaFiles = <<>> /\ dateOrder = "" /\ parsed = <<>>
  /\ parseErrors = <<>> /\ parseDone = FALSE
  /\ contentIsText = TRUE /\ chat = NoChat
  /\ selectedChat = "" /\ selectedChatFolder = "" /\ privateUnlocked = FALSE
  /\ showPasswordPrompt = FALSE /\ pendingPrivateChat = ""
  /\ visiblePrivateChats = <<>> /\ loading = <<>>
  /\ images = <<>> /\ imageCalls = [c \in CallIds |-> IdleImageCall]

SpecMerge   == Init /\ [][NextMerge]_vars
SpecBubbles == Init /\ [][NextBubbles]_vars
SpecCache   == Init /\ [][NextCache]_vars
SpecCacheAsync == Init /\ [][NextCacheAsync]_vars
SpecParse   == Init /\ [][NextParse]_vars
SpecParseEdge == Init /\ [][NextParseEdge]_vars
SpecParseHeader == Init /\ [][NextParseHeader]_vars
SpecApp     == Init /\ [][NextApp]_vars
SpecImages  == Init /\ [][NextImages]_vars

Next ==
  \/ NextMerge \/ NextBubbles \/ NextCache \/ NextCacheAsync
  \/ NextParse \/ NextParseEdge \/ NextParseHeader
  \/ NextApp \/ NextImages
Spec == Init /\ [][Next]_vars

----------------------------------------------------------------------------
(* Properties                                                              *)

Range(s) == {s[i] : i \in 1..Len(s)}

NonDecreasing(s) ==
  \A i, j \in 1..Len(s) : i < j => s[i].timestamp <= s[j].timestamp

(* ---- mediaCache ---- *)

\* C1: after each completed insert the aggregate size of the resident
\* entries does not exceed MAX_CACHE_SIZE * EVICTION_THRESHOLD, except when
\* the inserted entry alone is larger than that, and then the entry is not
\* persisted.
C1_InsertKeepsThreshold ==
  lastInsert # <<>> =>
    IF AboveThreshold(lastInsert[1].size)
    THEN lastInsert[1].driveFileId \notin StoreKeys(store)
    ELSE ~AboveThreshold(SumSizes(store))

(* ---- chatMerger ---- *)

IsAliceHello(msg, ts) ==
  /\ msg.sender = Alice /\ msg.content = Hello
  /\ msg.mediaFileName = <<>> /\ msg.timestamp = ts

\* 'Alice: hello' at 12:00:00.100 in one source and at 12:00:00.900 in another.
AliceHelloInTwoSources ==
  \E a, b \in 1..Len(pooled) :
    /\ a # b
    /\ \E m \in Range(pooled[a]) : IsAliceHello(m, 43200100)
    /\ \E m \in Range(pooled[b]) : IsAliceHello(m, 43200900)

\* C2: with two or more sources the output holds no two messages with the
\* same dedup key (the key getMessageKey builds from the timestamp floored
\* to the second, the lower-cased trimmed sender and the lower-cased media
\* file name or the lower-cased trimmed content), every key of the pooled
\* input is a key of the output, and 'Alice: hello' at 12:00:00.100 and
\* 12:00:00.900 in two sources yields exactly one message.
C2_DedupKeysUnique ==
  (mergeDone /\ Len(pooled) >= 2) =>
    /\ \A i, j \in 1..Len(merged) :
         i # j => getMessageKey(merged[i]) # getMessageKey(merged[j])
    /\ {getMessageKey(m) : m \in Range(Flat(pooled))}
         = {getMessageKey(m) : m \in Range(merged)}
    /\ AliceHelloInTwoSources =>
         Cardinality({i \in 1..Len(merged) :
                        \/ IsAliceHello(merged[i], 43200100)
                        \/ IsAliceHello(merged[i], 43200900)}) = 1

C2_Witness ==
  /\ mergeDone /\ Len(pooled) = 2
  /\ AliceHelloInTwoSources
  /\ Len(Flat(pooled)) = 2
  /\ Len(merged) = 1

\* C3: with exactly one source the result is that source's messages in
\* ascending timestamp order, as many as the source has: nothing is dropped,
\* also when several messages have the same timestamp, sender and content.
C3_SingleSourceOnlySorted ==
  (mergeDone /\ Len(pooled) = 1) =>
    /\ Len(merged) = Len(pooled[1])
    /\ {m.ref : m \in Range(merged)} = {m.ref : m \in Range(pooled[1])}
    /\ Range(merged) = Range(pooled[1])
    /\ NonDecreasing(merged)

C3_Witness ==
  /\ mergeDone /\ Len(pooled) = 1
  /\ Len(pooled[1]) = 2
  /\ pooled[1][1].timestamp = pooled[1][2].timestamp
  /\ pooled[1][1].sender = pooled[1][2].sender
  /\ pooled[1][1].content = pooled[1][2].content
  /\ pooled[1][1].mediaFileName = pooled[1][2].mediaFileName
  /\ Len(merged) = 2

\* C4: with two or more sources a message is retained exactly when no other
\* message of the same key stands before it in the pooled sequence ordered by
\* timestamp, messages of equal timestamps in pooled order (earlier source
\* first, then position in the source).
C4_FirstOccurrenceWins ==
  (mergeDone /\ Len(pooled) >= 2) =>
    LET flat == Flat(pooled)
        Before(q, p) ==
          \/ flat[q].timestamp < flat[p].timestamp
          \/ (flat[q].timestamp = flat[p].timestamp /\ q < p)
    IN  \A p \in 1..Len(flat) :
          (flat[p] \in Range(merged))
            <=> ~(\E q \in 1..Len(flat) :
                    /\ q # p
                    /\ getMessageKey(flat[q]) = getMessageKey(flat[p])
                    /\ Before(q, p))

\* The message of the second source is earlier than its duplicate in the
\* first source and is the one retained.
C4_Witness ==
  /\ mergeDone /\ Len(pooled) = 2
  /\ Len(pooled[1]) = 1 /\ Len(pooled[2]) = 1
  /\ getMessageKey(pooled[1][1]) = getMessageKey(pooled[2][1])
  /\ pooled[2][1].timestamp < pooled[1][1].timestamp
  /\ merged = <<pooled[2][1]>>

\* C5: for any number of sources the result is in non-decreasing timestamp
\* order.
C5_MergedChronological == mergeDone => NonDecreasing(merged)

C5_Witness ==
  /\ mergeDone /\ Len(pooled) >= 2
  /\ ~NonDecreasing(Flat(pooled))
  /\ Len(merged) >= 2

(* ---- chatParser ---- *)

ScannedLines == 1..Min(Len(lines), MaxScanLines)

FirstFieldAbove12(i) == parseInt(lines[i].date[1]) > 12
SecondFieldAbove12(i) == parseInt(lines[i].date[2]) > 12

\* C6: the order is month-first exactly when, among the scanned lines, more
\* date-prefixed lines have a second field above 12 than have a first field
\* above 12; otherwise it is day-first; lines behind the scanned prefix do
\* not count.
C6_DateOrderByEvidence ==
  parseDone =>
    LET dayFirst == {i \in ScannedLines :
                       DatePrefixed(lines[i]) /\ FirstFieldAbove12(i)}
        monthFirst == {i \in ScannedLines :
                         DatePrefixed(lines[i]) /\ SecondFieldAbove12(i)}
    IN  /\ dateOrder = "MDY" <=> Cardinality(monthFirst) > Cardinality(dayFirst)
        /\ dateOrder # "MDY" => dateOrder = "DMY"

\* Month-first although day-first evidence exists in the prefix and more of
\* it stands behind the prefix.
C6_Witness ==
  /\ parseDone /\ dateOrder = "MDY"
  /\ \E i \in ScannedLines : DatePrefixed(lines[i]) /\ FirstFieldAbove12(i)
  /\ \E i \in 1..Len(lines) :
       i > MaxScanLines /\ DatePrefixed(lines[i]) /\ FirstFieldAbove12(i)

\* The timestamp of a line read day-first: day is the first field, month
\* the second.
DayFirstTimestamp(line) ==
  LET year == IF parseInt(line.date[3]) < 100
              THEN parseInt(line.date[3]) + 2000 ELSE parseInt(line.date[3])
      h == parseInt(line.time[1])
      hours == IF line.time[4] = "PM" /\ h < 12 THEN h + 12
               ELSE IF line.time[4] = "AM" /\ h = 12 THEN 0 ELSE h
  IN  MakeDate(year, parseInt(line.date[2]), parseInt(line.date[1]), hours,
               parseInt(line.time[2]),
               IF line.time[3] # "" THEN parseInt(line.time[3]) ELSE 0)

DayFirstEvidenceOnly ==
  /\ \E i \in ScannedLines : lines[i].date # <<>> /\ FirstFieldAbove12(i)
  /\ \A i \in ScannedLines : DatePrefixed(lines[i]) => ~SecondFieldAbove12(i)

HasSenderSegment(line) == IndexOf(normalizeLine(line).body, ":") >= 2

\* C8: a message is of type system only if its line has no 'sender:'
\* segment; a line with a 'sender: body' segment never yields a system
\* message, whatever its body says.
C8_SystemOnlyFromSystemLines ==
  parseDone =>
    \A k \in 1..Len(parsed) :
      /\ parsed[k].type = "system" => ~HasSenderSegment(lines[parsed[k].lineNo])
      /\ HasSenderSegment(lines[parsed[k].lineNo]) => parsed[k].type # "system"

\* 'They added value to my life' in a chat of two participants is a text
\* message.
C8_Witness ==
  /\ parseDone
  /\ \E k \in 1..Len(parsed) :
       /\ parsed[k].type = "text"
       /\ Includes(parsed[k].content, <<"added">>)
       /\ HasSenderSegment(lines[parsed[k].lineNo])
  /\ Cardinality({parsed[k].sender : k \in
                    {x \in 1..Len(parsed) : parsed[x].type # "system"}}) = 2

\* C9: a user message whose body matches a media pattern and whose name
\* resolves to no file of the index is a text message whose content holds
\* the placeholder '[Media not found: NAME]' and is not empty, with or
\* without caption text in the body.
C9_UnresolvedMediaPlaceholder ==
  parseDone =>
    \A k \in 1..Len(parsed) :
      LET mm == MediaMatch(normalizeWaText(parsed[k].body)) IN
      (/\ HasSenderSegment(lines[parsed[k].lineNo])
       /\ mm # <<>>
       /\ findMediaFile(mm[1].name, mediaFiles) = <<>>)
      => /\ parsed[k].type = "text"
         /\ parsed[k].content # <<>>
         /\ Includes(parsed[k].content,
                     <<"[Media not found: ">> \o mm[1].name \o <<"]">>)

(* ---- timelineBuilder ---- *)

\* The group that holds the message of input position k.
GroupOf(k) ==
  CHOOSE g \in Range(bubbleGroups) : \E m \in Range(g.messages) : m.ref = k

\* C10: a non-system message joins the current group exactly when sender and
\* polarity are the group's and its timestamp is at most 600 seconds after
\* the group's first message; hence no message of a group is more than 600
\* seconds later than the first message of the group.
C10_GroupWithinTenMinutes ==
  bubbleDone =>
    /\ \A k \in 2..Len(bubbleInput) :
         bubbleInput[k].type # "system" =>
           LET joined == GroupOf(k).messages[1].ref # k
               current == GroupOf(k - 1)
           IN  joined <=>
                 /\ bubbleInput[k - 1].type # "system"
                 /\ current.sender = bubbleInput[k].sender
                 /\ current.isOutgoing = bubbleInput[k].isOutgoing
                 /\ bubbleInput[k].timestamp - current.timestamp <= 600000
    /\ \A g \in Range(bubbleGroups) : \A m \in Range(g.messages) :
         m.timestamp - g.timestamp <= 600000


\* Four messages of Bob (incoming) at 10:00, 10:09, 10:19 and 10:25 have
\* been grouped.
FourFromBob ==
  /\ bubbleDone
  /\ Len(bubbleInput) = 4
  /\ \A k \in 1..4 : bubbleInput[k].sender = "Bob" /\ ~bubbleInput[k].isOutgoing
  /\ bubbleInput[1].timestamp = 36000000
  /\ bubbleInput[2].timestamp = 36540000
  /\ bubbleInput[3].timestamp = 37140000
  /\ bubbleInput[4].timestamp = 37500000

\* C11 as stated: of Bob's messages at 10:00, 10:09, 10:19 and 10:25 the
\* 10:25 message is the first message of its group.
C11_FourthStartsGroup ==
  FourFromBob => GroupOf(4).messages[1].ref = 4

\* C11 amended: the new group starts at the 10:19 message, which is 19
\* minutes after the first message of the open group, and the 10:25 message
\* joins it, being 6 minutes after 10:19; the groups are {10:00, 10:09} and
\* {10:19, 10:25}.
C11_ThirdStartsGroup ==
  FourFromBob =>
    /\ Len(bubbleGroups) = 2
    /\ [k \in 1..2 |-> bubbleGroups[1].messages[k].ref] = <<1, 2>>
    /\ [k \in 1..2 |-> bubbleGroups[2].messages[k].ref] = <<3, 4>>
    /\ bubbleGroups[2].timestamp = 37140000

C11_Witness ==
  /\ FourFromBob
  /\ Len(bubbleGroups) = 2
  /\ GroupOf(4).messages[1].ref = 3


\* C12: a miss for content that is larger than the whole budget
\* MAX_CACHE_SIZE returns the content, but afterwards no entry for the key
\* is resident and the tracked cache size is what it was before the call.
C12_OverBudgetNotRetained ==
  [][ (/\ lastInsert' # <<>>
       /\ lastInsert'[1].driveFileId \notin memoryCache
       /\ lastInsert'[1].size > MAX_CACHE_SIZE)
      => (/\ lastInsert'[1].driveFileId \notin StoreKeys(store')
          /\ cacheSize' = cacheSize) ]_vars


\* C13: concurrent getMedia calls for one key are coalesced: in every
\* interleaving at most one remote fetch per key is in flight.
C13_OneFetchPerKey ==
  \A k \in DriveFileIds : Cardinality(FetchesInFlight(k)) <= 1

\* A call is inside addToCache, evictLRU or updateAccessTime.
MutationInProgress == \E c \in CallIds : calls[c].pc \in {"evict", "put", "touch"}

\* C14: in every interleaving of concurrent getMedia calls, whenever no
\* cache mutation is in progress the tracked size cacheSize is the sum of the
\* sizes of the resident entries.
C14_SizeMatchesResident ==
  ~MutationInProgress => cacheSize = SumSizes(store)


\* C15: eviction removes entries in ascending order of last access: no
\* entry removed by a step has a last access later than an entry that the
\* step left resident.
C15_EvictsOldestFirst ==
  [][ \A i, j \in 1..Len(store) :
        (/\ store[i].driveFileId \notin StoreKeys(store')
         /\ store[j].driveFileId \in StoreKeys(store'))
        => store[i].lastAccessed <= store[j].lastAccessed ]_vars

\* An insert evicted an entry and left resident an entry accessed later than it.
C15_Witness ==
  /\ lastInsert # <<>>
  /\ \E e \in lastInsert[1].evicted :
       \E i \in 1..Len(store) :
         /\ store[i].driveFileId # lastInsert[1].driveFileId
         /\ store[i].lastAccessed > e.lastAccessed

\* The entry of key k in the entries.
EntryOf(entries, k) ==
  entries[CHOOSE i \in 1..Len(entries) : entries[i].driveFileId = k]

LastCallIs(outcomes) == lastCall # <<>> /\ lastCall[1].outcome \in outcomes

\* C16: a hit for key k, from the in-memory map or from storage, sets the
\* last access of k's entry to the time of the hit and leaves its size, the
\* tracked size and every other entry as they were; no entry is then more
\* recently used than k, so eviction reaches k after all the others.
C16_HitRefreshesAccess ==
  [][ (/\ lastCall' # <<>>
       /\ lastCall'[1].outcome \in {"memory hit", "disk hit"})
      => LET k == lastCall'[1].driveFileId
         IN  /\ k \in StoreKeys(store) /\ k \in StoreKeys(store')
             /\ EntryOf(store', k).lastAccessed = now'
             /\ EntryOf(store', k).size = EntryOf(store, k).size
             /\ cacheSize' = cacheSize
             /\ \A o \in StoreKeys(store') \ {k} :
                  /\ o \in StoreKeys(store)
                  /\ EntryOf(store', o) = EntryOf(store, o)
                  /\ EntryOf(store', o).lastAccessed <= EntryOf(store', k).lastAccessed
             /\ StoreKeys(store') = StoreKeys(store) ]_vars

\* A hit made an entry that was inserted before another one the most
\* recently used of the two.
C16_Witness ==
  /\ LastCallIs({"memory hit", "disk hit"})
  /\ Len(store) >= 2
  /\ store[Len(store)].driveFileId = lastCall[1].driveFileId
  /\ store[Len(store)].lastAccessed = now
  /\ store[1].lastAccessed < now

\* C17: when the remote fetch fails the call fails and the cache is as it
\* was: no entry for the key in the in-memory map or in storage, the tracked
\* size unchanged, and the call is over (the fetch is not tried again).
C17_FailedFetchLeavesCache ==
  [][ (lastCall' # <<>> /\ lastCall'[1].outcome = "error")
      => /\ store' = store /\ memoryCache' = memoryCache /\ cacheSize' = cacheSize
         /\ lastCall'[1].driveFileId \notin memoryCache'
         /\ lastCall'[1].driveFileId \notin StoreKeys(store') ]_vars

\* A fetch failed while other entries were resident.
C17_Witness ==
  /\ LastCallIs({"error"})
  /\ store # <<>> /\ memoryCache # {}
  /\ lastCall[1].driveFileId \notin memoryCache
  /\ lastCall[1].driveFileId \notin StoreKeys(store)
  /\ cacheSize = SumSizes(store)

\* The line begins with a date and a time, bracketed or bare.
HasTimestampPrefix(line) == line.date # <<>> /\ line.time # <<>>

\* Line i of the file parses as a message line or as a system line.
LineParses(i) ==
  \/ matchMessageLine(normalizeLine(lines[i]), i, dateOrder) # <<>>
  \/ matchSystemLine(normalizeLine(lines[i]), i, dateOrder) # <<>>

\* The body a message has when the continuation lines from line i on are
\* appended to acc up to the next line that parses or begins with a timestamp.
RECURSIVE BodyUpToTimestamp(_, _)
BodyUpToTimestamp(i, acc) ==
  IF i > Len(lines) THEN acc
  ELSE IF IsEmptyLine(normalizeLine(lines[i])) THEN BodyUpToTimestamp(i + 1, acc)
  ELSE IF LineParses(i) \/ HasTimestampPrefix(normalizeLine(lines[i])) THEN acc
  ELSE BodyUpToTimestamp(i + 1, acc \o <<"\n">> \o LineText(normalizeLine(lines[i])))

\* The content matched on line i.
MatchedContent(i) ==
  LET user == matchMessageLine(normalizeLine(lines[i]), i, dateOrder)
  IN  IF user # <<>> THEN user[1].content
      ELSE matchSystemLine(normalizeLine(lines[i]), i, dateOrder)[1].content

\* C18: a line that begins with a timestamp, bracketed or bare, and parses
\* neither as a message nor as a system line is never appended to the open
\* message: the message ends as it stood before that line, and the lines after
\* it are not appended to it either.
C18_TimestampLineNotAppended ==
  parseDone =>
    \A k \in 1..Len(parsed) :
      parsed[k].body =
        BodyUpToTimestamp(parsed[k].lineNo + 1, MatchedContent(parsed[k].lineNo))

\* C19: a message made from a system line carries no media reference, no
\* call metadata and no quoted message, and its content is the normalized
\* text of the line.
C19_SystemLineNoInference ==
  parseDone =>
    \A k \in 1..Len(parsed) :
      parsed[k].type = "system" =>
        /\ parsed[k].mediaFileName = <<>>
        /\ parsed[k].driveFileId = ""
        /\ parsed[k].mediaUrl = ""
        /\ parsed[k].callKind = ""
        /\ parsed[k].callDuration = <<>>
        /\ ~parsed[k].callMissed
        /\ parsed[k].quotedMessage = <<>>
        /\ parsed[k].content = normalizeWaText(parsed[k].body)

\* C20: for a user message whose body has at least two lines, a first line
\* of the form 'sender: text' with both parts non-empty and a non-empty
\* remainder, quotedMessage is that sender and text and the content is the
\* remaining lines; for every other user message quotedMessage is absent.
C20_ReplyQuoteExtracted ==
  parseDone =>
    \A k \in 1..Len(parsed) :
      parsed[k].type # "system" =>
        LET q == extractQuotedMessage(parsed[k].body)
        IN  /\ parsed[k].quotedMessage = q.quotedMessage
            /\ q.quotedMessage # <<>> => parsed[k].content = q.cleaned

\* The senders of the files that are the local user: the configured display
\* name in either case, and the configured number written with its country
\* code.
LocalSenders ==
  { <<"Rajiv">>, <<"RAJIV">>, <<"+91", " ", "98860", " ", "31088">> }

\* C21: a parsed message is outgoing exactly when it is not a system
\* message and its sender is the local user by display name (in any case) or
\* by phone number (last ten digits); a system message is never outgoing.
C21_OutgoingIffLocalSender ==
  parseDone =>
    \A k \in 1..Len(parsed) :
      parsed[k].isOutgoing <=>
        (parsed[k].type # "system" /\ parsed[k].sender \in LocalSenders)

\* One file gave a message sent from the local number, one from the local
\* name in upper case, and a message of somebody else.
C21_Witness ==
  /\ parseDone
  /\ \E i, j, k \in 1..Len(parsed) :
       /\ parsed[i].sender = <<"+91", " ", "98860", " ", "31088">>
       /\ parsed[i].isOutgoing
       /\ parsed[j].sender = <<"RAJIV">> /\ parsed[j].isOutgoing
       /\ parsed[k].sender = <<"Alice">> /\ ~parsed[k].isOutgoing
\* C22: parseChatFile marks the chat as a group exactly when it has at least
\* three distinct senders of messages that are not system messages; a phrase
\* such as 'added' in a chat of two or fewer senders never makes it a group.
C22_GroupIffThreeSenders ==
  (parseDone /\ contentIsText) =>
    (chat.isGroup <=> Len(chat.participants) >= 3)

\* C23: parseChatFile never propagates an exception raised while parsing a
\* source: the failure yields a chat with no messages and no participants,
\* and the errors list records the failure.
C23_ParseFailureIsCaught ==
  (parseDone /\ ~contentIsText) =>
    /\ ~chat.thrown
    /\ parsed = <<>> /\ chat.participants = <<>> /\ ~chat.isGroup
    /\ \E k \in 1..Len(parseErrors) : parseErrors[k] = 0

C23_Witness ==
  parseDone /\ ~contentIsText /\ parseErrors = <<0>> /\ chat = NoChat

\* C26: for a message assembled from a start line and continuation lines,
\* with no media, edit, quote or call match, the content is the body of the
\* start line and each continuation line in source order, separated by
\* newline characters.
C26_ContinuationJoinedByNewline ==
  parseDone =>
    \A k \in 1..Len(parsed) :
      ( /\ parsed[k].type = "text"
        /\ ~parsed[k].isEdited /\ parsed[k].quotedMessage = <<>>
        /\ \E j \in 1..Len(parsed[k].body) : parsed[k].body[j] = "\n" )
      => parsed[k].content = parsed[k].body

\* The line is not empty, does not parse, and begins with a bracketed
\* timestamp: it closes the open message (lines 200-207).
ClosesMessage(i) ==
  /\ ~IsEmptyLine(normalizeLine(lines[i]))
  /\ ~LineParses(i)
  /\ startsWithTimestamp(normalizeLine(lines[i]))

\* No message is open when the loop reaches line i: every line before it that
\* starts a message is followed, before line i, by a line that closes it.
NoMessageOpen(i) ==
  \A j \in 1..(i - 1) :
    LineParses(j) /\ ~IsEmptyLine(normalizeLine(lines[j]))
      => \E m \in (j + 1)..(i - 1) : ClosesMessage(m)

\* A line that is not empty and parses neither as a message nor as a system
\* line, met while no message is open.
Orphan(i) ==
  /\ ~IsEmptyLine(normalizeLine(lines[i]))
  /\ ~LineParses(i)
  /\ NoMessageOpen(i)

\* Every line after line i that parses yields its message.
LaterLinesParsed(i) ==
  \A j \in (i + 1)..Len(lines) :
    (LineParses(j) /\ ~IsEmptyLine(normalizeLine(lines[j])))
      => \E k \in 1..Len(parsed) : parsed[k].lineNo = j

\* C27: a non-empty line that matches neither a message start nor a system
\* line while no message is open is skipped and recorded in the errors list,
\* wherever it occurs in the file, and every later well-formed message line
\* still yields its message.
C27_OrphanLineRecorded ==
  (parseDone /\ contentIsText) =>
    \A i \in 1..Len(lines) :
      Orphan(i) => (i \in Range(parseErrors) /\ LaterLinesParsed(i))

\* C27, amended: such a line is skipped; it is recorded in the errors list
\* exactly when it is the sixth line of the file or a later one, and every
\* later well-formed message line still yields its message.
C27_OrphanLineRecordedAfterHeader ==
  (parseDone /\ contentIsText) =>
    \A i \in 1..Len(lines) :
      Orphan(i) => /\ (i \in Range(parseErrors) <=> i > 5)
                   /\ LaterLinesParsed(i)

C27_Witness ==
  /\ parseDone
  /\ \E i \in 1..Len(lines) :
       /\ i > 5 /\ Orphan(i) /\ i \in Range(parseErrors)
       /\ \E j \in (i + 1)..Len(lines), k \in 1..Len(parsed) :
            LineParses(j) /\ parsed[k].lineNo = j
  /\ \E i \in 1..Len(lines) : i <= 5 /\ Orphan(i) /\ i \notin Range(parseErrors)

\* C28: in the sequence mergeMessages returns for two or more parsed
\* sources, no two messages have the same id.
C28_MergedIdsDistinct ==
  (mergeDone /\ Len(pooled) >= 2) =>
    \A i, j \in 1..Len(merged) :
      i # j => MessageId(merged[i]) # MessageId(merged[j])

\* C30: mergeMessages([A]) and mergeMessages([A, []]) return the same
\* sequence of messages, for every parsed source A.
C30_EmptySourceNeutral ==
  (mergeDone /\ Len(pooled) = 2 /\ pooled[2] = <<>>) =>
    merged = mergeMessages(<<pooled[1]>>)

(* ---- App ---- *)

\* C24: after a back navigation from the chat view to the main list, no
\* private chat remains visible and private access is locked again, for
\* every sequence of chat selections and password entries before it.
C24_BackLocksPrivate ==
  [][(selectedChat # "" /\ selectedChat' = "")
       => (visiblePrivateChats' = <<>> /\ ~privateUnlocked')]_vars

\* C29: whenever the messages of a private chat are displayed, private
\* access is unlocked; a loadChat that completes after the re-lock does not
\* display the private chat.
C29_PrivateShownOnlyUnlocked ==
  selectedChat \in PrivateFolders => privateUnlocked

(* ---- image cache ---- *)

\* C25: after any sequence of cacheImage and getCachedImage calls, their
\* asynchronous steps interleaved, the total size of the images in the cache
\* never exceeds MAX_IMAGE_CACHE_SIZE (1 GiB).
C25_ImageCacheWithinLimit ==
  getImageCacheSize(images) <= MAX_IMAGE_CACHE_SIZE

====
